---------------------------- MODULE Spec2Model ----------------------------
(***************************************************************************)
(* A model of the kg-proj item catalogue tools:                            *)
(*   - the scrape pipeline (kg/scrape.py main) with the catalogue          *)
(*     transforms of kg/scraper/dota/utils.py: set_orders,                 *)
(*     set_distinct_recipes, remove_distinct_recipes;                      *)
(*   - the graph builder (kg/parse.py build_dota_item);                    *)
(*   - the resolvers of kg/queries/full_recipe.py and crafts_into.py.      *)
(*                                                                         *)
(* Item names are Python strings.  A name is modelled as a sequence of     *)
(* atoms; an atom is one character (a letter, " ", "'", "_") or the        *)
(* whole word "Recipe", which the code tests for and which no other atom   *)
(* overlaps.  The string operations of the code are computed on these      *)
(* sequences.                                                              *)
(***************************************************************************)
EXTENDS Integers, Sequences, FiniteSets, TLC

VARIABLES
    items,      \* the catalogue held by the process: name -> DotaItem record
    file,       \* the catalogue last written by save_to_json (items.json)
    pc,         \* position of the running tool
    last,       \* history: the transform applied last
    prev,       \* history: the catalogue that transform was applied to
    trip,       \* history: "none", "expanded" (after set_distinct_recipes),
                \*          "collapsed" (remove_distinct_recipes came next)
    snap,       \* history: the catalogue the last set_distinct_recipes got
    raised,     \* the exception that ended the run, and the memo of
                \*   set_orders when it was raised
    graph,      \* the rdflib Graph: a set of triples <<subject, predicate, object>>
    query,      \* the item the top-level resolver call was made for
    visited,    \* the visited set of the resolver call in progress
    stack,      \* the frames of the resolver calls in progress, innermost last
    result,     \* what the top-level resolver call returned
    expanded,   \* history: how often the call in progress got past the
                \*          visited guard, per identifier
    cache,      \* build_all_recipes_with_subitems: cache
    all_recipes,\* build_all_recipes_with_subitems: all_recipes
    targets,    \* what find_crafts_into returned
    found,      \* what find_item_uri returned
    printed,    \* the names find_item_uri printed when it found none
    page,       \* scrape(): the scraper and what the site gives it
    futures     \* scrape(): the state of each task given to the worker pool

scrapeVars == <<items, file, pc, last, prev, trip, snap, raised>>

queryVars == <<graph, query, visited, stack, result, expanded, cache, all_recipes, targets,
              found, printed, page, futures>>

vars == <<items, file, pc, last, prev, trip, snap, raised,
          graph, query, visited, stack, result, expanded, cache, all_recipes, targets,
          found, printed, page, futures>>

-----------------------------------------------------------------------------
(* Bounds of the model *)

MaxRecipeLen == 3      \* longest recipe list of a scraped item
MaxCost == 1           \* scraped costs are 1..MaxCost

-----------------------------------------------------------------------------
(* Strings *)

\* DotaItem.order is "int | None"; None is modelled by NoOrder
NoOrder == -1

\* Optional[URIRef]: the None find_item_uri returns when it finds no item
NoneUri == <<"None", <<>>>>

\* the generic placeholder "Recipe"
GenericRecipe == <<"Recipe">>

\* name.endswith("Recipe")
endswith_Recipe(name) == Len(name) > 0 /\ name[Len(name)] = "Recipe"

\* "recipe" in name.lower()
contains_recipe(name) == \E i \in 1..Len(name) : name[i] \in {"Recipe", "recipe"}

\* f"{name} Recipe"
recipe_name_of(name) == name \o <<" ", "Recipe">>

\* Python's order on str (code points): " " < "'" < "A" < .. < "Z" < "_" < "a"
AtomRank(a) ==
    CASE a = " "      -> 0
      [] a = "'"      -> 1
      [] a = "A"      -> 2
      [] a = "B"      -> 3
      [] a = "C"      -> 4
      [] a = "D"      -> 5
      [] a = "Recipe" -> 6
      [] a = "_"      -> 7
      [] a = "a"      -> 8
      [] a = "b"      -> 9
      [] a = "c"      -> 10
      [] a = "d"      -> 11
      [] a = "recipe" -> 12

RECURSIVE str_lt(_, _)
str_lt(a, b) ==
    IF b = <<>> THEN FALSE
    ELSE IF a = <<>> THEN TRUE
    ELSE IF AtomRank(Head(a)) # AtomRank(Head(b))
         THEN AtomRank(Head(a)) < AtomRank(Head(b))
    ELSE str_lt(Tail(a), Tail(b))


-----------------------------------------------------------------------------
(* The catalogue: Dict[str, DotaItem].  A catalogue is a function from the *)
(* names it holds to records; the key of an entry is its item's name, as   *)
(* the scrapers store it (ans[result.name] = result).  The fields url,     *)
(* image, buffs and abilities are carried along unread by the transforms.  *)

\* DotaItem(name, cost, recipe, order)
DotaItem(cost, recipe, order) == [cost |-> cost, recipe |-> recipe, order |-> order]

\* a mutant of max_default0: the first element stands for the greatest
max_default0_first(list) == IF list = <<>> THEN 0 ELSE Head(list)

\* max(list, default=0)
RECURSIVE max_default0(_)
max_default0(list) ==
    IF list = <<>> THEN 0
    ELSE LET m == max_default0(Tail(list))
         IN  IF Head(list) > m THEN Head(list) ELSE m

\* sum(list)
RECURSIVE sum(_)
sum(list) == IF list = <<>> THEN 0 ELSE Head(list) + sum(Tail(list))

\* sorted(names): a set of str in ascending order
RECURSIVE sorted(_)
sorted(S) ==
    IF S = {} THEN <<>>
    ELSE LET m == CHOOSE x \in S : \A y \in S \ {x} : str_lt(x, y)
         IN  <<m>> \o sorted(S \ {m})

\* no exception
NotRaised == [op |-> "none", exc |-> "none", orders |-> <<>>]

\* set_orders.get_order: the order of name under the memo orders.  path is
\* the chain of calls in progress: the memo is written only after the
\* recursion returns, so a name met again on the path recurses until
\* Python raises RecursionError; items[name] of an absent name raises
\* KeyError.  Returns [ok, orders, val, exc, computed]: orders is the memo
\* when the call returned or raised, exc the exception raised, computed the
\* names for which line 47 was entered, in that order.
RECURSIVE get_order(_, _, _, _)
RECURSIVE get_order_list(_, _, _, _)
get_order_list(its, orders, list, path) ==
    IF list = <<>> THEN [ok |-> TRUE, orders |-> orders, val |-> <<>>, exc |-> "none",
          computed |-> <<>>]
    ELSE LET h == get_order(its, orders, Head(list), path)
         IN  IF ~h.ok THEN [h EXCEPT !.val = <<>>]
             ELSE LET t == get_order_list(its, h.orders, Tail(list), path)
                  IN  [t EXCEPT !.val = <<h.val>> \o t.val,
                            !.computed = h.computed \o @]

\* a mutant of get_order: a name met again on the path of calls counts 0
get_order_guarded(its, orders, name, path) ==
    IF endswith_Recipe(name) \/ name \in path
    THEN [ok |-> TRUE, orders |-> orders, val |-> 0, exc |-> "none",
          computed |-> <<>>]
    ELSE IF name \in DOMAIN orders
    THEN [ok |-> TRUE, orders |-> orders, val |-> orders[name], exc |-> "none",
          computed |-> <<>>]
    ELSE IF name \notin DOMAIN its
    THEN [ok |-> FALSE, orders |-> orders, val |-> 0, exc |-> "KeyError",
          computed |-> <<>>]
    ELSE LET r == get_order_list(its, orders, its[name].recipe, path \cup {name})
         IN  IF ~r.ok THEN [r EXCEPT !.val = 0, !.computed = <<name>> \o @]
             ELSE LET o == max_default0(r.val) + 1
                  IN  [ok |-> TRUE, orders |-> (name :> o) @@ r.orders, val |-> o,
                       exc |-> "none", computed |-> <<name>> \o r.computed]

\* a mutant of get_order: the "+ 1" is lost
get_order_flat(its, orders, name, path) ==
    IF endswith_Recipe(name)
    THEN [ok |-> TRUE, orders |-> orders, val |-> 0, exc |-> "none",
          computed |-> <<>>]
    ELSE IF name \in DOMAIN orders
    THEN [ok |-> TRUE, orders |-> orders, val |-> orders[name], exc |-> "none",
          computed |-> <<>>]
    ELSE IF name \notin DOMAIN its
    THEN [ok |-> FALSE, orders |-> orders, val |-> 0, exc |-> "KeyError",
          computed |-> <<>>]
    ELSE IF name \in path
    THEN [ok |-> FALSE, orders |-> orders, val |-> 0, exc |-> "RecursionError",
          computed |-> <<>>]
    ELSE LET r == get_order_list(its, orders, its[name].recipe, path \cup {name})
         IN  IF ~r.ok THEN [r EXCEPT !.val = 0, !.computed = <<name>> \o @]
             ELSE LET o == max_default0(r.val)
                  IN  [ok |-> TRUE, orders |-> (name :> o) @@ r.orders, val |-> o,
                       exc |-> "none", computed |-> <<name>> \o r.computed]

\* a mutant of get_order: the memo is written but never read
get_order_unmemoized(its, orders, name, path) ==
    IF endswith_Recipe(name)
    THEN [ok |-> TRUE, orders |-> orders, val |-> 0, exc |-> "none",
          computed |-> <<>>]
    ELSE IF name \notin DOMAIN its
    THEN [ok |-> FALSE, orders |-> orders, val |-> 0, exc |-> "KeyError",
          computed |-> <<>>]
    ELSE IF name \in path
    THEN [ok |-> FALSE, orders |-> orders, val |-> 0, exc |-> "RecursionError",
          computed |-> <<>>]
    ELSE LET r == get_order_list(its, orders, its[name].recipe, path \cup {name})
         IN  IF ~r.ok THEN [r EXCEPT !.val = 0, !.computed = <<name>> \o @]
             ELSE LET o == max_default0(r.val) + 1
                  IN  [ok |-> TRUE, orders |-> (name :> o) @@ r.orders, val |-> o,
                       exc |-> "none", computed |-> <<name>> \o r.computed]

get_order(its, orders, name, path) ==
    IF endswith_Recipe(name)
    THEN [ok |-> TRUE, orders |-> orders, val |-> 0, exc |-> "none",
          computed |-> <<>>]
    ELSE IF name \in DOMAIN orders
    THEN [ok |-> TRUE, orders |-> orders, val |-> orders[name], exc |-> "none",
          computed |-> <<>>]
    ELSE IF name \notin DOMAIN its
    THEN [ok |-> FALSE, orders |-> orders, val |-> 0, exc |-> "KeyError",
          computed |-> <<>>]
    ELSE IF name \in path
    THEN [ok |-> FALSE, orders |-> orders, val |-> 0, exc |-> "RecursionError",
          computed |-> <<>>]
    ELSE LET r == get_order_list(its, orders, its[name].recipe, path \cup {name})
         IN  IF ~r.ok THEN [r EXCEPT !.val = 0, !.computed = <<name>> \o @]
             ELSE LET o == max_default0(r.val) + 1
                  IN  [ok |-> TRUE, orders |-> (name :> o) @@ r.orders, val |-> o,
                       exc |-> "none", computed |-> <<name>> \o r.computed]

\* set_orders: the loop over ans.items(), every item's order written
RECURSIVE set_orders_loop(_, _, _, _)
set_orders_loop(its, ans, orders, names) ==
    IF names = <<>>
    THEN [ok |-> TRUE, val |-> ans, raised |-> NotRaised, computed |-> <<>>]
    ELSE LET name == Head(names)
             r == get_order(its, orders, name, {})
         IN  IF ~r.ok
             THEN [ok |-> FALSE, val |-> ans,
                   raised |-> [op |-> "none", exc |-> r.exc, orders |-> r.orders],
                   computed |-> r.computed]
             ELSE LET rest == set_orders_loop(its,
                                  [ans EXCEPT ![name].order = r.val], r.orders,
                                  Tail(names))
                  IN  [rest EXCEPT !.computed = r.computed \o @]

set_orders(its) == set_orders_loop(its, its, <<>>, sorted(DOMAIN its))

\* sorted(items.items(), key=lambda x: (x[1].order, x[0])) compares the keys
\* of two entries; None < int raises TypeError, (None, a) < (None, b) does not
sorted_raises(its) ==
    \E a, b \in DOMAIN its : its[a].order = NoOrder /\ its[b].order # NoOrder

order_name_lt(its, a, b) ==
    \/ its[a].order < its[b].order
    \/ its[a].order = its[b].order /\ str_lt(a, b)

RECURSIVE sorted_by_order(_, _)
sorted_by_order(its, S) ==
    IF S = {} THEN <<>>
    ELSE LET m == CHOOSE x \in S : \A y \in S \ {x} : order_name_lt(its, x, y)
         IN  <<m>> \o sorted_by_order(its, S \ {m})

\* a mutant of distinct_recipe: the first placeholder is removed and the
\* recipe node appended, as recipe.remove("Recipe"); recipe.append(..) does
distinct_recipe_appended(recipe, recipe_name) ==
    LET first == CHOOSE i \in 1..Len(recipe) :
                     /\ recipe[i] = GenericRecipe
                     /\ \A j \in 1..(i - 1) : recipe[j] # GenericRecipe
    IN  IF GenericRecipe \notin {recipe[i] : i \in 1..Len(recipe)} THEN recipe
        ELSE SubSeq(recipe, 1, first - 1) \o SubSeq(recipe, first + 1, Len(recipe))
             \o <<recipe_name>>

\* [recipe_name if r == "Recipe" else r for r in item.recipe]
distinct_recipe(recipe, recipe_name) ==
    [i \in 1..Len(recipe) |->
        IF recipe[i] = GenericRecipe THEN recipe_name ELSE recipe[i]]

\* a mutant of other_costs: every other component is counted once
other_costs_distinct(its, recipe, recipe_name) ==
    LET others == sorted({recipe[i] : i \in 1..Len(recipe)} \ {recipe_name})
    IN  [i \in 1..Len(others) |-> its[others[i]].cost]

\* [items[r].cost for r in item.recipe if r != recipe_name]
other_costs(its, recipe, recipe_name) ==
    LET others == SelectSeq(recipe, LAMBDA r : r # recipe_name)
    IN  [i \in 1..Len(others) |-> its[others[i]].cost]

\* set_distinct_recipes: the loop body over the sorted entries.  items[r] of
\* a component the catalogue does not hold raises KeyError.
RECURSIVE set_distinct_recipes_loop(_, _, _)
set_distinct_recipes_loop(its, ans, names) ==
    IF names = <<>> THEN [ok |-> TRUE, val |-> ans, raised |-> NotRaised]
    ELSE LET name == Head(names)
             item == its[name]
         IN  IF contains_recipe(name)
             THEN set_distinct_recipes_loop(its, ans, Tail(names))
             ELSE IF item.recipe # <<>>
                     /\ \E i \in 1..Len(item.recipe) : contains_recipe(item.recipe[i])
             THEN LET recipe_name == recipe_name_of(name)
                      recipe == distinct_recipe(item.recipe, recipe_name)
                  IN  IF \E i \in 1..Len(recipe) :
                             recipe[i] # recipe_name /\ recipe[i] \notin DOMAIN its
                      THEN [ok |-> FALSE, val |-> ans,
                            raised |-> [NotRaised EXCEPT !.exc = "KeyError"]]
                      ELSE LET recipe_cost ==
                                   item.cost - sum(other_costs(its, recipe, recipe_name))
                           IN  set_distinct_recipes_loop(its,
                                   (name :> [item EXCEPT !.recipe = recipe])
                                   @@ (recipe_name :> DotaItem(recipe_cost, <<>>, NoOrder))
                                   @@ ans,
                                   Tail(names))
             ELSE set_distinct_recipes_loop(its, (name :> item) @@ ans, Tail(names))

set_distinct_recipes(its) ==
    IF sorted_raises(its)
    THEN [ok |-> FALSE, val |-> its, raised |-> [NotRaised EXCEPT !.exc = "TypeError"]]
    ELSE set_distinct_recipes_loop(its, <<>>, sorted_by_order(its, DOMAIN its))

\* a mutant of generic_recipe: r == "Recipe" in place of r.endswith("Recipe")
generic_recipe_exact(recipe) ==
    [i \in 1..Len(recipe) |->
        IF recipe[i] = GenericRecipe THEN GenericRecipe ELSE recipe[i]]

\* ["Recipe" if r.endswith("Recipe") else r for r in item.recipe]
generic_recipe(recipe) ==
    [i \in 1..Len(recipe) |->
        IF endswith_Recipe(recipe[i]) THEN GenericRecipe ELSE recipe[i]]

\* remove_distinct_recipes: entries whose name holds "recipe" are dropped,
\* every other entry keeps its fields but the recipe
remove_distinct_recipes(its) ==
    [name \in {n \in DOMAIN its : ~contains_recipe(n)} |->
        [its[name] EXCEPT !.recipe = generic_recipe(its[name].recipe)]]

-----------------------------------------------------------------------------
(* The scrape pipeline: kg/scrape.py main.  One run scrapes or loads the   *)
(* catalogue, assigns orders unless --no-assign-orders, applies            *)
(* set_distinct_recipes or (--no-distinct-recipes) remove_distinct_recipes *)
(* and saves items.json; a later run loads that file with --input.         *)

\* what a scraper returns: names and components as the sites give them, the
\* recipe scroll as the generic "Recipe", no order yet
ScrapedNames == {<<"A">>, <<"B">>}

ScrapedComponents == ScrapedNames \cup {GenericRecipe}

RecipeLists == UNION {[1..n -> ScrapedComponents] : n \in 0..MaxRecipeLen}

ScrapedItems == {DotaItem(c, r, NoOrder) : c \in 1..MaxCost, r \in RecipeLists}

Scraped == UNION {[S -> ScrapedItems] : S \in SUBSET ScrapedNames}

InitScrape ==
    /\ items \in Scraped
    /\ file = <<>>
    /\ pc = "loaded"
    /\ last = "none"
    /\ prev = <<>>
    /\ trip = "none"
    /\ snap = <<>>
    /\ raised = NotRaised
    /\ graph = {}
    /\ query = <<>>
    /\ visited = {}
    /\ stack = <<>>
    /\ result = <<>>
    /\ expanded = <<>>
    /\ cache = <<>>
    /\ all_recipes = <<>>
    /\ targets = <<>>
    /\ found = NoneUri
    /\ printed = <<>>
    /\ page = <<>>
    /\ futures = <<>>

\* res = set_orders(res)
SetOrders ==
    /\ pc = "loaded"
    /\ LET r == set_orders(items)
       IN  /\ pc' = IF r.ok THEN "ordered" ELSE "raised"
           /\ items' = IF r.ok THEN r.val ELSE items
           /\ last' = IF r.ok THEN "set_orders" ELSE "raised"
           /\ raised' = [r.raised EXCEPT !.op = IF r.ok THEN "none" ELSE "set_orders"]
    /\ prev' = items
    /\ UNCHANGED <<file, trip, snap>>
    /\ UNCHANGED queryVars

\* res = set_distinct_recipes(res)
SetDistinctRecipes ==
    /\ pc \in {"loaded", "ordered"}
    /\ LET r == set_distinct_recipes(items)
       IN  /\ pc' = IF r.ok THEN "transformed" ELSE "raised"
           /\ items' = IF r.ok THEN r.val ELSE items
           /\ last' = IF r.ok THEN "set_distinct_recipes" ELSE "raised"
           /\ trip' = IF r.ok THEN "expanded" ELSE "none"
           /\ raised' = [r.raised EXCEPT !.op =
                             IF r.ok THEN "none" ELSE "set_distinct_recipes"]
    /\ prev' = items
    /\ snap' = items
    /\ UNCHANGED file
    /\ UNCHANGED queryVars

\* res = remove_distinct_recipes(res)
RemoveDistinctRecipes ==
    /\ pc \in {"loaded", "ordered"}
    /\ items' = remove_distinct_recipes(items)
    /\ pc' = "transformed"
    /\ last' = "remove_distinct_recipes"
    /\ trip' = IF trip = "expanded" THEN "collapsed" ELSE "none"
    /\ prev' = items
    /\ UNCHANGED <<file, snap, raised>>
    /\ UNCHANGED queryVars

\* save_to_json(output_file, res)
SaveToJson ==
    /\ pc = "transformed"
    /\ file' = items
    /\ pc' = "saved"
    /\ UNCHANGED <<items, last, prev, trip, snap, raised>>
    /\ UNCHANGED queryVars

\* the next run: res = parse_from_json(input_file).  The histories start
\* afresh, but for a set_distinct_recipes still waiting for its inverse.
ParseFromJson ==
    /\ pc = "saved"
    /\ items' = file
    /\ pc' = "loaded"
    /\ last' = "none"
    /\ prev' = <<>>
    /\ trip' = IF trip = "expanded" THEN "expanded" ELSE "none"
    /\ snap' = IF trip = "expanded" THEN snap ELSE <<>>
    /\ UNCHANGED <<file, raised>>
    /\ UNCHANGED queryVars

NextScrape ==
    \/ SetOrders
    \/ SetDistinctRecipes
    \/ RemoveDistinctRecipes
    \/ SaveToJson
    \/ ParseFromJson

SpecScrape == InitScrape /\ [][NextScrape]_vars

-----------------------------------------------------------------------------
(* The graph: kg/parse.py.  A node is <<"uri", name>> (a URIRef of the     *)
(* KG namespace, name its part after "#") or <<"lit", value>> (a           *)
(* Literal).  Only the triples the resolvers read are kept: the types of   *)
(* items and slots, hasBuildSchema, hasSlot, hasItem, quantity and cost.   *)

\* KG[name]
KG(name) == <<"uri", name>>

\* Literal(value, datatype=XSD.integer)
Literal(value) == <<"lit", value>>

\* isinstance(node, URIRef)
is_URIRef(node) == node[1] = "uri"

\* uri.split("#", 1)[-1]
get_name_from_uri(uri) == uri[2]

\* graph.objects(subject, predicate), in no order
objects(g, subject, predicate) ==
    {t[3] : t \in {t \in g : t[1] = subject /\ t[2] = predicate}}

\* graph.subjects(predicate, object)
subjects(g, predicate, object) ==
    {t[1] : t \in {t \in g : t[2] = predicate /\ t[3] = object}}

\* name.replace(" ", "_").replace("'", "")
normalize_name(name) ==
    LET kept == SelectSeq(name, LAMBDA a : a # "'")
    IN  [i \in 1..Len(kept) |-> IF kept[i] = " " THEN "_" ELSE kept[i]]

\* item.recipe.count(comp)
count(recipe, comp) == Cardinality({i \in 1..Len(recipe) : recipe[i] = comp})

\* a mutant of slot_id: the quantity is no part of the slot's identifier
slot_id_unqualified(normalized_name, qty) == normalized_name \o <<"_", "x">>

\* f"{normalized_name}_{qty}x"
slot_id(normalized_name, qty) == normalized_name \o <<"_", ToString(qty), "x">>

\* f"{name}_BS"
schema_id(name) == name \o <<"_", "BS">>

\* build_dota_item: the loop over item.recipe; used holds the normalized
\* names linked so far.  Returns the triples the loop adds.
RECURSIVE build_slots(_, _, _, _)
build_slots(schema_uri, recipe, i, used) ==
    IF i > Len(recipe) THEN {}
    ELSE LET comp == recipe[i]
             normalized_name == normalize_name(comp)
             qty == count(recipe, comp)
         IN  IF normalized_name \in used
             THEN build_slots(schema_uri, recipe, i + 1, used)
             ELSE (IF qty = 1
                   THEN {<<schema_uri, "hasSlot", KG(normalized_name)>>}
                   ELSE LET slot_ref == KG(slot_id(normalized_name, qty))
                        IN  {<<slot_ref, "type", KG(<<"BuildSchemaSlot">>)>>,
                             <<slot_ref, "hasItem", KG(normalized_name)>>,
                             <<slot_ref, "quantity", Literal(qty)>>,
                             <<schema_uri, "hasSlot", slot_ref>>})
                  \cup build_slots(schema_uri, recipe, i + 1,
                                   used \cup {normalized_name})

build_dota_item_with_schema(item_name, item) ==
    LET name == normalize_name(item_name)
        item_uri == KG(name)
        schema_uri == KG(schema_id(name))
    IN  {<<item_uri, "type", KG(<<"DotaItem">>)>>,
         <<item_uri, "cost", Literal(item.cost)>>,
         <<schema_uri, "type", KG(<<"BuildSchema">>)>>,
         <<item_uri, "hasBuildSchema", schema_uri>>}
        \cup build_slots(schema_uri, item.recipe, 1, {})

\* build_dota_item(graph, item): the triples it adds for the item called
\* item_name
build_dota_item(item_name, item) ==
    LET name == normalize_name(item_name)
        item_uri == KG(name)
        schema_uri == KG(schema_id(name))
    IN  {<<item_uri, "type", KG(<<"DotaItem">>)>>,
         <<item_uri, "cost", Literal(item.cost)>>}
        \cup (IF item.recipe # <<>>
              THEN {<<schema_uri, "type", KG(<<"BuildSchema">>)>>,
                    <<item_uri, "hasBuildSchema", schema_uri>>}
                   \cup build_slots(schema_uri, item.recipe, 1, {})
              ELSE {})

-----------------------------------------------------------------------------
(* The resolvers: kg/queries/full_recipe.py and kg/queries/crafts_into.py. *)
(* A call in progress is a frame; the recursion is the stack of frames.    *)
(* The visited set is the one object every nested call shares.             *)

\* defaultdict(int): d[k]
dict_get(d, k) == IF k \in DOMAIN d THEN d[k] ELSE 0

\* d[k] += n
dict_add(d, k, n) ==
    [x \in DOMAIN d \cup {k} |-> dict_get(d, x) + (IF x = k THEN n ELSE 0)]

\* a mutant of dict_merge: the slot's quantity is lost
dict_merge_unweighed(d, sub, qty) ==
    [x \in DOMAIN d \cup DOMAIN sub |-> dict_get(d, x) + dict_get(sub, x)]

\* for name, count in sub.items(): d[name] += count * qty
dict_merge(d, sub, qty) ==
    [x \in DOMAIN d \cup DOMAIN sub |-> dict_get(d, x) + dict_get(sub, x) * qty]

\* the locals of one call: the item, the slots the for loop has yet to
\* yield, recipe (leaves in crafts_into.py), sub_items, and while a nested
\* call runs the item it was made for and the slot's quantity
Frame(item_uri, slots) ==
    [item_uri |-> item_uri, slots |-> slots, recipe |-> <<>>, sub_items |-> {},
     callee |-> item_uri, qty |-> 1]

\* int(qty_objs[0]) if qty_objs and isinstance(qty_objs[0], Literal) else 1,
\* qty_objs[0] being any of the slot's quantity objects
quantities(g, slot_uri) ==
    LET qty_objs == objects(g, slot_uri, "quantity")
    IN  IF qty_objs = {} THEN {1}
        ELSE {IF is_URIRef(q) THEN 1 ELSE q[2] : q \in qty_objs}

\* a mutant of slot_calls: a slot whose hasItem object is a Literal is read
\* as a slot without a hasItem edge
slot_calls_item_removed(g, slot_uri) ==
    IF ~is_URIRef(slot_uri)
    THEN {[skip |-> TRUE, callee |-> slot_uri, qty |-> 1]}
    ELSE LET slot_items == {o \in objects(g, slot_uri, "hasItem") : is_URIRef(o)}
         IN  IF slot_items # {}
             THEN {[skip |-> FALSE, callee |-> slot_item_uri, qty |-> q] :
                       slot_item_uri \in slot_items, q \in quantities(g, slot_uri)}
             ELSE {[skip |-> FALSE, callee |-> slot_uri, qty |-> 1]}

\* what one pass of the for loop does with slot_uri: skip it (continue), or
\* call the resolver for callee and weigh what it returns by qty
slot_calls(g, slot_uri) ==
    IF ~is_URIRef(slot_uri)
    THEN {[skip |-> TRUE, callee |-> slot_uri, qty |-> 1]}
    ELSE LET slot_items == objects(g, slot_uri, "hasItem")
         IN  IF slot_items # {}
             THEN {[skip |-> ~is_URIRef(slot_item_uri),
                    callee |-> slot_item_uri,
                    qty |-> IF is_URIRef(slot_item_uri) THEN q ELSE 1] :
                       slot_item_uri \in slot_items, q \in quantities(g, slot_uri)}
             ELSE {[skip |-> FALSE, callee |-> slot_uri, qty |-> 1]}

\* stack with its innermost frame replaced
with_top(stk, frame) == SubSeq(stk, 1, Len(stk) - 1) \o <<frame>>

merge_sub_recipe_once(recipe, sub_recipe, callee, qty) ==
    IF DOMAIN sub_recipe # {}
    THEN dict_merge(recipe, sub_recipe, qty)
    ELSE dict_add(recipe, get_name_from_uri(callee), 1)

\* get_full_recipe, after a nested call for callee returned sub_recipe:
\* merge it weighed by qty, or credit callee itself when it is empty
merge_sub_recipe(recipe, sub_recipe, callee, qty) ==
    IF DOMAIN sub_recipe # {}
    THEN dict_merge(recipe, sub_recipe, qty)
    ELSE dict_add(recipe, get_name_from_uri(callee), qty)

merge_sub_leaves_direct(frame, sub_leaves, sub_sub_items, callee, qty) ==
    [frame EXCEPT !.recipe = dict_merge(@, sub_leaves, qty),
                  !.sub_items = @ \cup {get_name_from_uri(callee)}]

\* get_full_recipe_with_subitems, after a nested call for callee returned
\* (sub_leaves, sub_sub_items)
merge_sub_leaves(frame, sub_leaves, sub_sub_items, callee, qty) ==
    [frame EXCEPT !.recipe = dict_merge(@, sub_leaves, qty),
                  !.sub_items = @ \cup {get_name_from_uri(callee)} \cup sub_sub_items]

never_visited(item_uri, seen) == FALSE

\* the item is visited already: the call returns at once
already_visited(item_uri, seen) == item_uri \in seen

leaf_recipe_self(item_uri) == dict_add(<<>>, get_name_from_uri(item_uri), 1)

\* get_full_recipe of an item without a build schema: recipe is returned as
\* it was created
leaf_recipe(item_uri) == <<>>

\* the top-level call get_full_recipe(builder, item_uri) of main
GetFullRecipe(item_uri) ==
    /\ pc = "ready"
    /\ item_uri \in subjects(graph, "type", KG(<<"DotaItem">>))
    /\ query' = item_uri
    /\ visited' = {item_uri}
    /\ expanded' = dict_add(<<>>, item_uri, 1)
    /\ LET schema_uris == objects(graph, item_uri, "hasBuildSchema")
       IN  IF schema_uris # {}
           THEN /\ \E schema_uri \in schema_uris :
                       stack' = <<Frame(item_uri, objects(graph, schema_uri, "hasSlot"))>>
                /\ pc' = "fr_running"
                /\ UNCHANGED result
           ELSE /\ result' = leaf_recipe(item_uri)
                /\ pc' = "fr_done"
                /\ UNCHANGED stack
    /\ UNCHANGED <<items, file, last, prev, trip, snap, raised, found, printed, page, futures, graph, cache, all_recipes,
                   targets>>

\* get_full_recipe: one pass of the loop over the schema's slots, with the
\* entry of the nested call it makes
GetFullRecipeSlot ==
    /\ pc = "fr_running"
    /\ LET top == stack[Len(stack)]
       IN  \E slot_uri \in top.slots : \E call \in slot_calls(graph, slot_uri) :
               LET rest == [top EXCEPT !.slots = @ \ {slot_uri}]
                   schema_uris == objects(graph, call.callee, "hasBuildSchema")
                   returned(sub_recipe) ==
                       [rest EXCEPT !.recipe =
                           merge_sub_recipe(@, sub_recipe, call.callee, call.qty)]
               IN  IF call.skip
                   THEN /\ stack' = with_top(stack, rest)
                        /\ UNCHANGED <<visited, expanded>>
                   ELSE IF already_visited(call.callee, visited)
                   THEN /\ stack' = with_top(stack, returned(<<>>))
                        /\ UNCHANGED <<visited, expanded>>
                   ELSE /\ visited' = visited \cup {call.callee}
                        /\ expanded' = dict_add(expanded, call.callee, 1)
                        /\ IF schema_uris = {}
                           THEN stack' = with_top(stack,
                                             returned(leaf_recipe(call.callee)))
                           ELSE \E schema_uri \in schema_uris :
                                    stack' =
                                        with_top(stack,
                                            [rest EXCEPT !.callee = call.callee,
                                                         !.qty = call.qty])
                                        \o <<Frame(call.callee,
                                                   objects(graph, schema_uri, "hasSlot"))>>
    /\ UNCHANGED <<items, file, pc, last, prev, trip, snap, raised, found, printed, page, futures, graph, query, result,
                   cache, all_recipes, targets>>

\* get_full_recipe: return dict(recipe), to the caller's loop or to main
GetFullRecipeReturn ==
    /\ pc = "fr_running"
    /\ LET top == stack[Len(stack)]
       IN  /\ top.slots = {}
           /\ IF Len(stack) = 1
              THEN /\ result' = top.recipe
                   /\ stack' = <<>>
                   /\ pc' = "fr_done"
              ELSE LET caller == stack[Len(stack) - 1]
                   IN  /\ stack' = with_top(SubSeq(stack, 1, Len(stack) - 1),
                                       [caller EXCEPT !.recipe =
                                           merge_sub_recipe(@, top.recipe,
                                                            caller.callee, caller.qty)])
                       /\ UNCHANGED <<result, pc>>
    /\ UNCHANGED <<items, file, last, prev, trip, snap, raised, found, printed, page, futures, graph, query, visited,
                   expanded, cache, all_recipes, targets>>

\* build_all_recipes_with_subitems: one pass of the loop over the DotaItems,
\* get_full_recipe_cached and the entry of get_full_recipe_with_subitems
GetFullRecipeCached(s) ==
    /\ pc \in {"ready", "ci_loop"}
    /\ s \in subjects(graph, "type", KG(<<"DotaItem">>))
    /\ is_URIRef(s)
    /\ get_name_from_uri(s) \notin DOMAIN all_recipes
    /\ IF s \in DOMAIN cache
       THEN /\ all_recipes' = (get_name_from_uri(s) :> cache[s]) @@ all_recipes
            /\ pc' = "ci_loop"
            /\ UNCHANGED <<query, visited, expanded, stack, cache>>
       ELSE /\ query' = s
            /\ visited' = {s}
            /\ expanded' = dict_add(<<>>, s, 1)
            /\ LET schema_uris == objects(graph, s, "hasBuildSchema")
                   leaf == [leaves |-> dict_add(<<>>, get_name_from_uri(s), 1),
                            sub_items |-> {}]
               IN  IF schema_uris # {}
                   THEN /\ \E schema_uri \in schema_uris :
                               stack' = <<Frame(s, objects(graph, schema_uri, "hasSlot"))>>
                        /\ pc' = "ci_running"
                        /\ UNCHANGED <<cache, all_recipes>>
                   ELSE /\ cache' = (s :> leaf) @@ cache
                        /\ all_recipes' = (get_name_from_uri(s) :> leaf) @@ all_recipes
                        /\ pc' = "ci_loop"
                        /\ UNCHANGED stack
    /\ UNCHANGED <<items, file, last, prev, trip, snap, raised, found, printed, page, futures, graph, result, targets>>

\* get_full_recipe_with_subitems: one pass of the loop over the schema's
\* slots, with the entry of the nested call it makes
GetFullRecipeWithSubitemsSlot ==
    /\ pc = "ci_running"
    /\ LET top == stack[Len(stack)]
       IN  \E slot_uri \in top.slots : \E call \in slot_calls(graph, slot_uri) :
               LET rest == [top EXCEPT !.slots = @ \ {slot_uri}]
                   schema_uris == objects(graph, call.callee, "hasBuildSchema")
               IN  IF call.skip
                   THEN /\ stack' = with_top(stack, rest)
                        /\ UNCHANGED <<visited, expanded>>
                   ELSE IF already_visited(call.callee, visited)
                   THEN /\ stack' = with_top(stack,
                                        merge_sub_leaves(rest, <<>>, {},
                                                         call.callee, call.qty))
                        /\ UNCHANGED <<visited, expanded>>
                   ELSE /\ visited' = visited \cup {call.callee}
                        /\ expanded' = dict_add(expanded, call.callee, 1)
                        /\ IF schema_uris = {}
                           THEN stack' = with_top(stack,
                                    merge_sub_leaves(rest,
                                        dict_add(<<>>, get_name_from_uri(call.callee), 1),
                                        {}, call.callee, call.qty))
                           ELSE \E schema_uri \in schema_uris :
                                    stack' =
                                        with_top(stack,
                                            [rest EXCEPT !.callee = call.callee,
                                                         !.qty = call.qty])
                                        \o <<Frame(call.callee,
                                                   objects(graph, schema_uri, "hasSlot"))>>
    /\ UNCHANGED <<items, file, pc, last, prev, trip, snap, raised, found, printed, page, futures, graph, query, result,
                   cache, all_recipes, targets>>

\* get_full_recipe_with_subitems: return dict(leaves), sub_items, to the
\* caller's loop or to get_full_recipe_cached, which stores it
GetFullRecipeWithSubitemsReturn ==
    /\ pc = "ci_running"
    /\ LET top == stack[Len(stack)]
           value == [leaves |-> top.recipe, sub_items |-> top.sub_items]
       IN  /\ top.slots = {}
           /\ IF Len(stack) = 1
              THEN /\ cache' = (top.item_uri :> value) @@ cache
                   /\ all_recipes' =
                          (get_name_from_uri(top.item_uri) :> value) @@ all_recipes
                   /\ stack' = <<>>
                   /\ pc' = "ci_loop"
              ELSE LET caller == stack[Len(stack) - 1]
                   IN  /\ stack' = with_top(SubSeq(stack, 1, Len(stack) - 1),
                                       merge_sub_leaves(caller, top.recipe, top.sub_items,
                                                        caller.callee, caller.qty))
                       /\ UNCHANGED <<cache, all_recipes, pc>>
    /\ UNCHANGED <<items, file, last, prev, trip, snap, raised, found, printed, page, futures, graph, query, visited,
                   expanded, result, targets>>

find_crafts_into_leaves(all_recipes_with_subitems, item_name) ==
    sorted({target \in DOMAIN all_recipes_with_subitems :
               item_name \in DOMAIN all_recipes_with_subitems[target].leaves})

\* find_crafts_into(all_recipes_with_subitems, item_name)
find_crafts_into(all_recipes_with_subitems, item_name) ==
    sorted({target \in DOMAIN all_recipes_with_subitems :
               item_name \in all_recipes_with_subitems[target].sub_items})

\* crafts_into.py main: after build_all_recipes_with_subitems returned,
\* targets = find_crafts_into(all_recipes_with_subitems, item_name_normalized)
FindCraftsInto(item_uri) ==
    /\ pc \in {"ready", "ci_loop"}
    /\ item_uri \in subjects(graph, "type", KG(<<"DotaItem">>))
    /\ \A s \in subjects(graph, "type", KG(<<"DotaItem">>)) :
           get_name_from_uri(s) \in DOMAIN all_recipes
    /\ query' = item_uri
    /\ targets' = find_crafts_into(all_recipes, get_name_from_uri(item_uri))
    /\ pc' = "ci_done"
    /\ UNCHANGED <<items, file, last, prev, trip, snap, raised, found, printed, page, futures, graph, visited, stack,
                   result, expanded, cache, all_recipes>>

-----------------------------------------------------------------------------
(* The query tools over a catalogue: kg/parse.py main builds the graph of  *)
(* an items.json and serializes it, full_recipe.py or crafts_into.py loads *)
(* it and answers one query.                                               *)

MaxSlotLen == 2        \* longest recipe list of an item built into the graph

\* the catalogue's craftable names, and the names recipes are made of: B and
\* C may be craftable themselves, "D'D E" never is an entry
BuiltNames == {<<"A">>, <<"B">>, <<"C">>}

BuiltComponents == {<<"B">>, <<"C">>, <<"D", "'", "D", " ", "E">>}

\* recipe lists, the equal components side by side
BuiltRecipes ==
    {r \in UNION {[1..n -> BuiltComponents] : n \in 0..MaxSlotLen} :
        \A i \in 1..(Len(r) - 1) : r[i] = r[i + 1] \/ str_lt(r[i], r[i + 1])}

BuiltCatalogues ==
    UNION {[S -> {DotaItem(1, r, NoOrder) : r \in BuiltRecipes}] :
              S \in SUBSET BuiltNames}

InitQuery ==
    /\ items \in BuiltCatalogues
    /\ file = <<>>
    /\ pc = "build"
    /\ last = "none"
    /\ prev = <<>>
    /\ trip = "none"
    /\ snap = <<>>
    /\ raised = NotRaised
    /\ graph = {}
    /\ query = <<>>
    /\ visited = {}
    /\ stack = <<>>
    /\ result = <<>>
    /\ expanded = <<>>
    /\ cache = <<>>
    /\ all_recipes = <<>>
    /\ targets = <<>>
    /\ found = NoneUri
    /\ printed = <<>>
    /\ page = <<>>
    /\ futures = <<>>

\* kg/parse.py main: build_dota_item for every item of the catalogue, then
\* serialize; the query tool's load_from_file gives the same set of triples
BuildGraph ==
    /\ pc = "build"
    /\ graph' = UNION {build_dota_item(name, items[name]) : name \in DOMAIN items}
    /\ pc' = "ready"
    /\ UNCHANGED <<items, file, last, prev, trip, snap, raised, found, printed, page, futures, query, visited, stack,
                   result, expanded, cache, all_recipes, targets>>

NextQuery ==
    \/ BuildGraph
    \/ \E item_uri \in {KG(normalize_name(n)) : n \in BuiltNames} :
           GetFullRecipe(item_uri)
    \/ GetFullRecipeSlot
    \/ GetFullRecipeReturn
    \/ \E s \in {KG(normalize_name(n)) : n \in BuiltNames} : GetFullRecipeCached(s)
    \/ GetFullRecipeWithSubitemsSlot
    \/ GetFullRecipeWithSubitemsReturn
    \/ \E item_uri \in {KG(normalize_name(n)) : n \in BuiltNames} :
           FindCraftsInto(item_uri)

SpecQuery == InitQuery /\ [][NextQuery]_vars

\* the resolvers run to completion: each step is taken when it can be
FairQuery == SpecQuery /\ WF_vars(NextQuery)

-----------------------------------------------------------------------------
(* The graph builder alone: kg/parse.py main reads an items.json and calls *)
(* build_dota_item for one item after the other.  The recipes are lists of *)
(* names as scraped: two spellings of one identifier may stand in a list.  *)

MaxBuildLen == 3       \* longest recipe list of an item built one by one

ParsedNames == {<<"A">>, <<"B">>}

\* "D D" and "D_D" are two spellings of the identifier D_D
ParsedComponents == {<<"B">>, <<"D", " ", "D">>, <<"D", "_", "D">>}

ParsedRecipes == UNION {[1..n -> ParsedComponents] : n \in 0..MaxBuildLen}

ParsedCatalogues ==
    UNION {[S -> {DotaItem(1, r, NoOrder) : r \in ParsedRecipes}] :
              S \in SUBSET ParsedNames}

\* the loop of main has passed the item called name
is_built(g, name) == <<KG(normalize_name(name)), "type", KG(<<"DotaItem">>)>> \in g

InitBuild ==
    /\ items \in ParsedCatalogues
    /\ file = <<>>
    /\ pc = "building"
    /\ last = "none"
    /\ prev = <<>>
    /\ trip = "none"
    /\ snap = <<>>
    /\ raised = NotRaised
    /\ graph = {}
    /\ query = <<>>
    /\ visited = {}
    /\ stack = <<>>
    /\ result = <<>>
    /\ expanded = <<>>
    /\ cache = <<>>
    /\ all_recipes = <<>>
    /\ targets = <<>>
    /\ found = NoneUri
    /\ printed = <<>>
    /\ page = <<>>
    /\ futures = <<>>

\* one pass of the loop over data.dota_items.values()
BuildDotaItem(name) ==
    /\ pc = "building"
    /\ name \in DOMAIN items
    /\ ~is_built(graph, name)
    /\ graph' = graph \cup build_dota_item(name, items[name])
    /\ UNCHANGED <<items, file, pc, last, prev, trip, snap, raised, found, printed, page, futures, query, visited, stack,
                   result, expanded, cache, all_recipes, targets>>

\* the loop is over: g.serialize
Serialize ==
    /\ pc = "building"
    /\ \A name \in DOMAIN items : is_built(graph, name)
    /\ pc' = "ready"
    /\ UNCHANGED <<items, file, last, prev, trip, snap, raised, found, printed, page, futures, graph, query, visited,
                   stack, result, expanded, cache, all_recipes, targets>>

NextBuild ==
    \/ \E name \in ParsedNames : BuildDotaItem(name)
    \/ Serialize

SpecBuild == InitBuild /\ [][NextBuild]_vars

-----------------------------------------------------------------------------
(* The fields of an item: build_buffs and build_abilities of kg/parse.py.  *)
(* A Buffs or AbilityStats object is a function from field names to        *)
(* values, None for a field not set; numbers are 0..MaxStat.               *)

MaxStat == 1           \* the greatest value of a buff or ability field

\* Python's None where a number may stand, as for DotaItem.order
None == NoOrder

\* Buffs.asdict / AbilityStats.asdict: the fields that are not None
asdict(obj) == [k \in {f \in DOMAIN obj : obj[f] # None} |-> obj[k]]

\* snake_case_to_camel_case, on the field names of the model
snake_case_to_camel_case(name) ==
    CASE name = "strength" -> "strength"
      [] name = "health_regen" -> "healthRegen"
      [] name = "heal_amp" -> "healAmp"
      [] name = "additional_stats" -> "additionalStats"

\* build_buffs: "if not val: continue" passes over 0
build_buffs(item_uri, buffs) ==
    {<<item_uri, snake_case_to_camel_case(k), Literal(asdict(buffs)[k])>> :
        k \in {f \in DOMAIN asdict(buffs) : asdict(buffs)[f] # 0}}

\* the class of an ability by its ability_type
ability_type_of(ability) ==
    IF ability.ability_type = "PASSIVE" THEN KG(<<"PassiveAbility">>)
    ELSE IF ability.ability_type = "TOGGLE" THEN KG(<<"ToggleAbility">>)
    ELSE KG(<<"Ability">>)

\* build_abilities: the triples of one ability of the item called name
build_ability(item_uri, name, ability) ==
    LET ability_uri == KG(name \o <<"_">> \o normalize_name(ability.name))
    IN  {<<ability_uri, "type", ability_type_of(ability)>>,
         <<ability_uri, "description", Literal(ability.description)>>,
         <<item_uri, "hasAbility", ability_uri>>}
        \cup (IF ability.cooldown # None
              THEN {<<ability_uri, "cooldown", Literal(ability.cooldown)>>}
              ELSE {})
        \cup (IF ability.mana_cost # None
              THEN {<<ability_uri, "manaCost", Literal(ability.mana_cost)>>}
              ELSE {})
        \cup (IF ability.stats # <<>>
              THEN {<<ability_uri, snake_case_to_camel_case(stat_name),
                      Literal(asdict(ability.stats)[stat_name])>> :
                        stat_name \in DOMAIN asdict(ability.stats) \ {"additional_stats"}}
              ELSE {})

build_abilities(item_uri, name, abilities) ==
    UNION {build_ability(item_uri, name, abilities[i]) : i \in 1..Len(abilities)}

\* what build_generic_item and build_dota_item add for the abilities and
\* the buffs of an item; no buffs and no abilities are <<>>
build_fields(item_name, item) ==
    LET name == normalize_name(item_name)
    IN  (IF item.abilities # <<>>
         THEN build_abilities(KG(name), name, item.abilities) ELSE {})
        \cup (IF item.buffs # <<>> THEN build_buffs(KG(name), item.buffs) ELSE {})

StatValues == {None} \cup 0..MaxStat

BuffsObjects == {<<>>} \cup [{"strength", "health_regen"} -> StatValues]

AbilityStatsObjects ==
    {<<>>} \cup [{"additional_stats", "heal_amp"} -> StatValues]

Abilities ==
    [name : {<<"P", " ", "Q">>}, description : {None, 1},
     ability_type : {"PASSIVE", "TOGGLE"},
     mana_cost : StatValues, cooldown : StatValues, stats : AbilityStatsObjects]

ItemsWithFields ==
    [cost : {1}, recipe : {<<>>}, order : {NoOrder}, buffs : BuffsObjects,
     abilities : {<<>>} \cup {<<a>> : a \in Abilities}]

InitFields ==
    /\ items \in [{<<"A">>} -> ItemsWithFields]
    /\ file = <<>>
    /\ pc = "building"
    /\ last = "none"
    /\ prev = <<>>
    /\ trip = "none"
    /\ snap = <<>>
    /\ raised = NotRaised
    /\ graph = {}
    /\ query = <<>>
    /\ visited = {}
    /\ stack = <<>>
    /\ result = <<>>
    /\ expanded = <<>>
    /\ cache = <<>>
    /\ all_recipes = <<>>
    /\ targets = <<>>
    /\ found = NoneUri
    /\ printed = <<>>
    /\ page = <<>>
    /\ futures = <<>>

\* one pass of the loop of main: build_dota_item with build_generic_item,
\* build_abilities and build_buffs
BuildDotaItemFields(name) ==
    /\ pc = "building"
    /\ name \in DOMAIN items
    /\ ~is_built(graph, name)
    /\ graph' = graph \cup build_dota_item(name, items[name])
                      \cup build_fields(name, items[name])
    /\ UNCHANGED <<items, file, pc, last, prev, trip, snap, raised, found, printed, page, futures, query, visited,
                   stack, result, expanded, cache, all_recipes, targets>>

NextFields ==
    \/ \E name \in {<<"A">>} : BuildDotaItemFields(name)
    \/ Serialize

SpecFields == InitFields /\ [][NextFields]_vars

-----------------------------------------------------------------------------
(* find_item_uri of full_recipe.py and crafts_into.py: the exact match on  *)
(* lower-cased identifiers, and difflib.get_close_matches(word,            *)
(* possibilities, n=5, cutoff=0.75) for the names it prints otherwise.     *)

\* str.lower() on one character
lower_atom(a) ==
    CASE a = "A" -> "a"
      [] a = "B" -> "b"
      [] a = "C" -> "c"
      [] a = "D" -> "d"
      [] OTHER -> a

\* name.lower()
lower(name) == [i \in 1..Len(name) |-> lower_atom(name[i])]

\* SequenceMatcher.find_longest_match(alo, ahi, blo, bhi): the longest block
\* a[i..i+k-1] = b[j..j+k-1] inside the two ranges (1-based, inclusive), of
\* the longest the one that starts earliest in a, then earliest in b
find_longest_match(a, alo, ahi, b, blo, bhi) ==
    LET blocks == {m \in (alo..ahi) \X (blo..bhi) \X (1..(ahi - alo + 1)) :
                      /\ m[1] + m[3] - 1 <= ahi
                      /\ m[2] + m[3] - 1 <= bhi
                      /\ \A d \in 0..(m[3] - 1) : a[m[1] + d] = b[m[2] + d]}
    IN  IF blocks = {} THEN <<alo, blo, 0>>
        ELSE CHOOSE m \in blocks :
                 \A o \in blocks :
                     \/ o[3] < m[3]
                     \/ o[3] = m[3] /\ m[1] < o[1]
                     \/ o[3] = m[3] /\ m[1] = o[1] /\ m[2] <= o[2]

\* the number of matching characters SequenceMatcher.get_matching_blocks
\* finds: the longest block, then the same to its left and to its right
RECURSIVE matches(_, _, _, _, _, _)
matches(a, alo, ahi, b, blo, bhi) ==
    IF alo > ahi \/ blo > bhi THEN 0
    ELSE LET m == find_longest_match(a, alo, ahi, b, blo, bhi)
         IN  IF m[3] = 0 THEN 0
             ELSE m[3] + matches(a, alo, m[1] - 1, b, blo, m[2] - 1)
                       + matches(a, m[1] + m[3], ahi, b, m[2] + m[3], bhi)

\* SequenceMatcher(a=x, b=word).ratio() >= 0.75, ratio being 2.0 * M / T;
\* two empty strings have ratio 1
ratio_ge_cutoff(x, word) ==
    \/ Len(x) + Len(word) = 0
    \/ 8 * matches(x, 1, Len(x), word, 1, Len(word)) >= 3 * (Len(x) + Len(word))

\* the order of heapq.nlargest on (score, x): the better score first, of
\* equal scores the greater string
score_gt(x, y, word) ==
    LET sx == matches(x, 1, Len(x), word, 1, Len(word)) * (Len(y) + Len(word))
        sy == matches(y, 1, Len(y), word, 1, Len(word)) * (Len(x) + Len(word))
    IN  sx > sy \/ (sx = sy /\ str_lt(y, x))

\* the n best of S, best first
RECURSIVE nlargest(_, _, _)
nlargest(n, S, word) ==
    IF n = 0 \/ S = {} THEN <<>>
    ELSE LET best == CHOOSE x \in S : \A y \in S \ {x} : score_gt(x, y, word)
         IN  <<best>> \o nlargest(n - 1, S \ {best}, word)

\* a mutant of get_close_matches: every possibility scoring the cutoff
get_all_matches(word, possibilities, n) ==
    nlargest(Cardinality(possibilities),
             {x \in possibilities : ratio_ge_cutoff(x, word)}, word)

\* difflib.get_close_matches(word, possibilities, n, cutoff=0.75)
get_close_matches(word, possibilities, n) ==
    nlargest(n, {x \in possibilities : ratio_ge_cutoff(x, word)}, word)

\* normalized_input in item_map
exact_match(normalized_input, item_map) == normalized_input \in DOMAIN item_map

\* the item_map the loop over the DotaItems may leave: the lower-cased
\* identifier of each, mapped to the identifier of the item met last
item_maps(g) ==
    LET actual_names == {get_name_from_uri(s) :
                            s \in {u \in subjects(g, "type", KG(<<"DotaItem">>)) :
                                      is_URIRef(u)}}
        keys == {lower(normalize_name(n)) : n \in actual_names}
    IN  {f \in [keys -> actual_names] :
            \A k \in keys : lower(normalize_name(f[k])) = k}

\* the names an items.json of the query tools may hold, and what the user
\* may type for one
FoundNames ==
    {<<"A", "A", "A", "B">>, <<"A", "A", "A", "C">>, <<"A", "A", "A", "D">>,
     <<"B", "A", "A", "A">>, <<"C", "A", "A", "A">>, <<"D", "A", "A", "A">>,
     <<"A", "'", "A", " ", "B">>}

TypedNames ==
    {<<"A", "A", "A", "A">>, <<"a", "a", "a", "b">>, <<"a", "'", "a", " ", "b">>,
     <<"D", "D", "D", "D">>}

InitFind ==
    /\ items \in UNION {[S -> {DotaItem(1, <<>>, NoOrder)}] : S \in SUBSET FoundNames}
    /\ file = <<>>
    /\ pc = "build"
    /\ last = "none"
    /\ prev = <<>>
    /\ trip = "none"
    /\ snap = <<>>
    /\ raised = NotRaised
    /\ graph = {}
    /\ query = <<>>
    /\ visited = {}
    /\ stack = <<>>
    /\ result = <<>>
    /\ expanded = <<>>
    /\ cache = <<>>
    /\ all_recipes = <<>>
    /\ targets = <<>>
    /\ found = NoneUri
    /\ printed = <<>>
    /\ page = <<>>
    /\ futures = <<>>

\* item_uri = find_item_uri(builder, args.item_name)
FindItemUri(name) ==
    /\ pc = "ready"
    /\ \E item_map \in item_maps(graph) :
           LET normalized_input == lower(normalize_name(name))
               close_matches == get_close_matches(normalized_input, DOMAIN item_map, 5)
           IN  IF exact_match(normalized_input, item_map)
               THEN /\ found' = KG(item_map[normalized_input])
                    /\ printed' = <<>>
                    /\ pc' = "found"
               ELSE /\ found' = NoneUri
                    /\ printed' =
                           IF close_matches # <<>>
                           THEN [i \in 1..Len(close_matches) |-> item_map[close_matches[i]]]
                           ELSE sorted({item_map[k] : k \in DOMAIN item_map})
                    /\ pc' = "not_found"
    /\ query' = name
    /\ UNCHANGED <<items, file, last, prev, trip, snap, raised, page, futures, graph, visited, stack,
                   result, expanded, cache, all_recipes, targets>>

NextFind ==
    \/ BuildGraph
    \/ \E name \in TypedNames : FindItemUri(name)

SpecFind == InitFind /\ [][NextFind]_vars

-----------------------------------------------------------------------------
(* The resolvers as functions of the graph: every value a call may return, *)
(* over the orders in which graph.objects may yield the slots.  A graph    *)
(* loaded from kg-dota.rdf may hold an edge whose object is a Literal.     *)

RECURSIVE get_full_recipe(_, _, _)
RECURSIVE get_full_recipe_slots(_, _, _, _)

\* get_full_recipe(builder, item_uri, visited): the values of (dict(recipe),
\* visited) the call may end with
get_full_recipe(g, item_uri, seen) ==
    IF already_visited(item_uri, seen)
    THEN {[recipe |-> <<>>, visited |-> seen]}
    ELSE LET schema_uris == objects(g, item_uri, "hasBuildSchema")
         IN  IF schema_uris # {}
             THEN UNION {get_full_recipe_slots(g, objects(g, schema_uri, "hasSlot"),
                                               <<>>, seen \cup {item_uri}) :
                            schema_uri \in schema_uris}
             ELSE {[recipe |-> leaf_recipe(item_uri), visited |-> seen \cup {item_uri}]}

\* the loop over the slots yet to come, from recipe and visited as they are
get_full_recipe_slots(g, slots, recipe, seen) ==
    IF slots = {} THEN {[recipe |-> recipe, visited |-> seen]}
    ELSE UNION {
           UNION {
             IF call.skip
             THEN get_full_recipe_slots(g, slots \ {slot_uri}, recipe, seen)
             ELSE UNION {get_full_recipe_slots(g, slots \ {slot_uri},
                             merge_sub_recipe(recipe, sub.recipe, call.callee, call.qty),
                             sub.visited) :
                            sub \in get_full_recipe(g, call.callee, seen)} :
             call \in slot_calls(g, slot_uri)} :
           slot_uri \in slots}

RECURSIVE get_full_recipe_with_subitems(_, _, _)
RECURSIVE get_full_recipe_with_subitems_slots(_, _, _, _)

\* get_full_recipe_with_subitems(builder, item_uri, visited): the values of
\* (dict(leaves), sub_items, visited) the call may end with
get_full_recipe_with_subitems(g, item_uri, seen) ==
    IF already_visited(item_uri, seen)
    THEN {[recipe |-> <<>>, sub_items |-> {}, visited |-> seen]}
    ELSE LET schema_uris == objects(g, item_uri, "hasBuildSchema")
         IN  IF schema_uris # {}
             THEN UNION {get_full_recipe_with_subitems_slots(g,
                             objects(g, schema_uri, "hasSlot"),
                             Frame(item_uri, {}), seen \cup {item_uri}) :
                            schema_uri \in schema_uris}
             ELSE {[recipe |-> dict_add(<<>>, get_name_from_uri(item_uri), 1),
                    sub_items |-> {}, visited |-> seen \cup {item_uri}]}

\* the loop over the slots yet to come, from the frame's leaves and
\* sub_items and visited as they are
get_full_recipe_with_subitems_slots(g, slots, frame, seen) ==
    IF slots = {}
    THEN {[recipe |-> frame.recipe, sub_items |-> frame.sub_items, visited |-> seen]}
    ELSE UNION {
           UNION {
             IF call.skip
             THEN get_full_recipe_with_subitems_slots(g, slots \ {slot_uri}, frame, seen)
             ELSE UNION {get_full_recipe_with_subitems_slots(g, slots \ {slot_uri},
                             merge_sub_leaves(frame, sub.recipe, sub.sub_items,
                                              call.callee, call.qty),
                             sub.visited) :
                            sub \in get_full_recipe_with_subitems(g, call.callee, seen)} :
             call \in slot_calls(g, slot_uri)} :
           slot_uri \in slots}

\* the catalogues behind a loaded kg-dota.rdf
LoadedNames == {<<"A">>, <<"B">>}

LoadedComponents == {<<"B">>, <<"C">>}

LoadedRecipes ==
    {r \in UNION {[1..n -> LoadedComponents] : n \in 0..MaxSlotLen} :
        \A i \in 1..(Len(r) - 1) : r[i] = r[i + 1] \/ str_lt(r[i], r[i + 1])}

LoadedCatalogues ==
    UNION {[S -> {DotaItem(1, r, NoOrder) : r \in LoadedRecipes}] :
              S \in SUBSET LoadedNames}

\* the graphs a file may hold that differ from g in one edge: a hasSlot edge
\* of a schema to a Literal, or the object of a hasItem edge a Literal
with_literal_edge(g) ==
    {g \cup {<<t[1], "hasSlot", Literal(1)>>} : t \in {t \in g : t[2] = "hasSlot"}}
    \cup {(g \ {t}) \cup {<<t[1], "hasItem", Literal(1)>>} :
             t \in {t \in g : t[2] = "hasItem"}}

InitLoad ==
    /\ items \in LoadedCatalogues
    /\ file = <<>>
    /\ pc = "load"
    /\ last = "none"
    /\ prev = <<>>
    /\ trip = "none"
    /\ snap = <<>>
    /\ raised = NotRaised
    /\ graph = {}
    /\ query = <<>>
    /\ visited = {}
    /\ stack = <<>>
    /\ result = <<>>
    /\ expanded = <<>>
    /\ cache = <<>>
    /\ all_recipes = <<>>
    /\ targets = <<>>
    /\ found = NoneUri
    /\ printed = <<>>
    /\ page = <<>>
    /\ futures = <<>>

\* builder.load_from_file("kg-dota.rdf"), the file being the graph of a
\* catalogue with one edge to a Literal
LoadFromFile ==
    /\ pc = "load"
    /\ graph' \in with_literal_edge(
                      UNION {build_dota_item(name, items[name]) : name \in DOMAIN items})
    /\ pc' = "ready"
    /\ UNCHANGED <<items, file, last, prev, trip, snap, raised, found, printed, page, futures, query, visited,
                   stack, result, expanded, cache, all_recipes, targets>>

NextLoad ==
    \/ LoadFromFile
    \/ \E item_uri \in {KG(normalize_name(n)) : n \in LoadedNames} :
           GetFullRecipe(item_uri)
    \/ GetFullRecipeSlot
    \/ GetFullRecipeReturn
    \/ \E s \in {KG(normalize_name(n)) : n \in LoadedNames} : GetFullRecipeCached(s)
    \/ GetFullRecipeWithSubitemsSlot
    \/ GetFullRecipeWithSubitemsReturn

SpecLoad == InitLoad /\ [][NextLoad]_vars

-----------------------------------------------------------------------------
(* Properties of the catalogue transforms, checked under SpecScrape *)

Range(list) == {list[i] : i \in 1..Len(list)}

MaxOfSet(S) == IF S = {} THEN 0 ELSE CHOOSE m \in S : \A x \in S : x <= m

\* the number of entries of list equal to x
Count(list, x) == Cardinality({i \in 1..Len(list) : list[i] = x})

\* a recipe whose only component ending in "Recipe" is the generic placeholder
GenericOnly(recipe) ==
    \A i \in 1..Len(recipe) : endswith_Recipe(recipe[i]) => recipe[i] = GenericRecipe

\* C5 as stated: for every catalogue, remove_distinct_recipes applied to the
\* result of set_distinct_recipes gives every item of the catalogue the
\* recipe list it had, element for element.
C5_RoundTripEveryCatalogue ==
    trip = "collapsed" =>
        \A name \in DOMAIN snap :
            name \in DOMAIN items /\ items[name].recipe = snap[name].recipe

\* C5 amended: the round trip gives back the recipe list of every item whose
\* name does not hold "recipe" and whose recipe holds no component ending in
\* "Recipe" but the generic placeholder; every other component ending in
\* "Recipe" comes back as the generic placeholder.
C5_RoundTripGeneric ==
    trip = "collapsed" =>
        \A name \in DOMAIN snap :
            ~contains_recipe(name) =>
                /\ name \in DOMAIN items
                /\ Len(items[name].recipe) = Len(snap[name].recipe)
                /\ \A i \in 1..Len(snap[name].recipe) :
                       items[name].recipe[i] =
                           IF endswith_Recipe(snap[name].recipe[i])
                           THEN GenericRecipe ELSE snap[name].recipe[i]
                /\ GenericOnly(snap[name].recipe) =>
                       items[name].recipe = snap[name].recipe

C5_Witness ==
    /\ trip = "collapsed"
    /\ last = "remove_distinct_recipes"
    /\ \E name \in DOMAIN snap :
           /\ GenericRecipe \in Range(snap[name].recipe)
           /\ Len(snap[name].recipe) = 3
           /\ GenericOnly(snap[name].recipe)
           /\ prev[name].recipe # snap[name].recipe
           /\ items[name].recipe = snap[name].recipe

\* C6: after set_distinct_recipes every item X whose recipe held the generic
\* placeholder has each placeholder replaced by "X Recipe", every other
\* component unchanged and in place, and "X Recipe" is an entry of the
\* output with an empty recipe.
C6_PlaceholderReplaced ==
    last = "set_distinct_recipes" =>
        \A X \in DOMAIN prev :
            GenericRecipe \in Range(prev[X].recipe) =>
                /\ X \in DOMAIN items
                /\ Len(items[X].recipe) = Len(prev[X].recipe)
                /\ \A i \in 1..Len(prev[X].recipe) :
                       /\ prev[X].recipe[i] = GenericRecipe
                              => items[X].recipe[i] = X \o <<" ", "Recipe">>
                       /\ prev[X].recipe[i] # GenericRecipe
                              => items[X].recipe[i] = prev[X].recipe[i]
                /\ X \o <<" ", "Recipe">> \in DOMAIN items
                /\ items[X \o <<" ", "Recipe">>].recipe = <<>>

C6_Witness ==
    /\ last = "set_distinct_recipes"
    /\ \E X \in DOMAIN prev :
           /\ Len(prev[X].recipe) = 3
           /\ prev[X].recipe[1] = GenericRecipe
           /\ prev[X].recipe[3] = GenericRecipe
           /\ prev[X].recipe[2] \in DOMAIN prev
           /\ items[X].recipe[3] = X \o <<" ", "Recipe">>

\* the items set_distinct_recipes makes a recipe node for
Expanded(its) ==
    {X \in DOMAIN its :
        /\ ~contains_recipe(X)
        /\ \E i \in 1..Len(its[X].recipe) : contains_recipe(its[X].recipe[i])}

\* the cost of the entries of X's new recipe other than "X Recipe", each
\* counted as often as it occurs
CostOfOthers(its, recipe, X) ==
    LET others == Range(recipe) \ {X \o <<" ", "Recipe">>}
        RECURSIVE total(_)
        total(S) ==
            IF S = {} THEN 0
            ELSE LET c == CHOOSE c \in S : TRUE
                 IN  Count(recipe, c) * its[c].cost + total(S \ {c})
    IN  total(others)

\* C7: for every item X that set_distinct_recipes expands, the cost of
\* "X Recipe" is the cost of X less the catalogue cost of every other entry
\* of X's recipe, counted with multiplicity; a negative difference is kept.
C7_RecipeCost ==
    last = "set_distinct_recipes" =>
        \A X \in Expanded(prev) :
            items[X \o <<" ", "Recipe">>].cost =
                prev[X].cost - CostOfOthers(prev, items[X].recipe, X)

C7_Witness ==
    /\ last = "set_distinct_recipes"
    /\ pc = "transformed"
    /\ \E X \in Expanded(prev) :
           /\ \E c \in Range(items[X].recipe) :
                  c # X \o <<" ", "Recipe">> /\ Count(items[X].recipe, c) = 2
           /\ items[X \o <<" ", "Recipe">>].cost < 0

\* the order a recipe component counts with
OrderOf(its, c) == IF endswith_Recipe(c) THEN 0 ELSE its[c].order

\* C8 as stated: set_orders gives each item of an acyclic catalogue the
\* order 1 + max(order of its components), 1 when the recipe is empty, a
\* component ending in "Recipe" counting as 0.
C8_OrderOfEveryItem ==
    last = "set_orders" =>
        \A name \in DOMAIN items :
            items[name].order =
                1 + MaxOfSet({OrderOf(items, c) : c \in Range(items[name].recipe)})

\* C8 amended: so it is for each item whose own name does not end in
\* "Recipe"; an item whose name ends in "Recipe" gets order 0.
C8_OrderOfItems ==
    last = "set_orders" =>
        \A name \in DOMAIN items :
            items[name].order =
                IF endswith_Recipe(name) THEN 0
                ELSE 1 + MaxOfSet({OrderOf(items, c) : c \in Range(items[name].recipe)})

C8_Witness ==
    /\ last = "set_orders"
    /\ \E name \in DOMAIN items :
           /\ items[name].order = 2
           /\ \E c \in Range(items[name].recipe) : endswith_Recipe(c)
           /\ \E c \in Range(items[name].recipe) :
                  c \in DOMAIN items /\ items[c].order = 1
    /\ \E name \in DOMAIN items : endswith_Recipe(name) /\ items[name].order = 0

\* C9: after set_orders on an acyclic catalogue every item has a greater
\* order than each component of its recipe.
C9_OrderAboveComponents ==
    last = "set_orders" =>
        \A name \in DOMAIN items :
            \A c \in Range(items[name].recipe) :
                /\ items[name].order > OrderOf(items, c)
                /\ c \in DOMAIN items => items[name].order > items[c].order

C9_Witness ==
    /\ last = "set_orders"
    /\ \E name \in DOMAIN items :
           \E c \in Range(items[name].recipe) :
               /\ c \in DOMAIN items
               /\ items[c].order = 1
               /\ items[name].order = 2

\* C15 as stated: set_orders, set_distinct_recipes and
\* remove_distinct_recipes return a catalogue for every input catalogue,
\* also when a recipe names a component the catalogue does not hold or only
\* some items have an order; none of them raises.
C15_NoOperationRaises == pc # "raised"

-----------------------------------------------------------------------------
(* Properties of the resolvers, checked under SpecQuery and FairQuery *)

\* the components of the catalogue's item n
Components(its, n) == IF n \in DOMAIN its THEN Range(its[n].recipe) ELSE {}

\* the names some chain of one or more component edges leads to from n
Reach(its, n) ==
    LET RECURSIVE closure(_)
        closure(S) ==
            LET T == S \cup UNION {Components(its, c) : c \in S}
            IN  IF T = S THEN S ELSE closure(T)
    IN  closure(Components(its, n))

Acyclic(its) == \A n \in DOMAIN its : n \notin Reach(its, n)

\* a component that is no craftable entry of the catalogue
IsLeaf(its, c) == c \notin DOMAIN its \/ its[c].recipe = <<>>

\* the leaves of the fully unrolled recipe tree of n, each with the number of
\* times the tree holds it, by the leaf's identifier
RECURSIVE Unrolled(_, _)
Unrolled(its, n) ==
    IF IsLeaf(its, n) THEN dict_add(<<>>, normalize_name(n), 1)
    ELSE LET RECURSIVE total(_)
             total(i) ==
                 IF i = 0 THEN <<>>
                 ELSE dict_merge(total(i - 1), Unrolled(its, its[n].recipe[i]), 1)
         IN  total(Len(its[n].recipe))

\* the catalogue name of the item the tool was asked about
Queried == CHOOSE n \in DOMAIN items : KG(normalize_name(n)) = query

\* C1 as stated: for every acyclic catalogue built into a graph and every
\* craftable item of it, get_full_recipe maps each leaf to the number of
\* times the leaf occurs in the item's fully unrolled recipe tree, also when
\* an intermediate craftable item is reached through two different slots.
C1_UnrolledCounts ==
    (pc = "fr_done" /\ Acyclic(items) /\ ~IsLeaf(items, Queried)) =>
        result = Unrolled(items, Queried)

\* C2: a top-level get_full_recipe call for an item with an empty recipe
\* returns the empty mapping, not the item itself with count 1.
C2_LeafReturnsEmpty ==
    (pc = "fr_done" /\ items[Queried].recipe = <<>>) => DOMAIN result = {}

C2_Witness ==
    /\ pc = "fr_done"
    /\ items[Queried].recipe = <<>>
    /\ objects(graph, query, "hasBuildSchema") = {}
    /\ \E n \in DOMAIN items : items[n].recipe # <<>>

Resolving == pc \in {"fr_running", "ci_running"}

\* C4: in a top-level call of get_full_recipe or of
\* get_full_recipe_with_subitems no item identifier is expanded more than
\* once, and the call returns, on catalogues with self-loops and longer
\* cycles as on acyclic ones.
C4_ExpandedOnceAndReturns ==
    /\ [](\A item_uri \in DOMAIN expanded : expanded[item_uri] <= 1)
    /\ (Resolving ~> ~Resolving)

C4_Witness ==
    /\ pc = "ci_loop"
    /\ query \in DOMAIN cache
    /\ Queried \in Reach(items, Queried)
    /\ \E c \in Components(items, Queried) : c # Queried /\ Queried \in Reach(items, c)
    /\ Cardinality(DOMAIN expanded) >= 2

\* C10: find_crafts_into returns the names of the items whose sub-item set,
\* as get_full_recipe_with_subitems collected it, holds the component asked
\* about, each once, in ascending order.
C10_CraftsIntoSorted ==
    pc = "ci_done" =>
        /\ Range(targets) =
               {I \in DOMAIN all_recipes :
                   get_name_from_uri(query) \in all_recipes[I].sub_items}
        /\ \A i \in 1..(Len(targets) - 1) : str_lt(targets[i], targets[i + 1])

C10_Witness ==
    /\ pc = "ci_done"
    /\ Len(targets) = 2
    /\ Cardinality(DOMAIN all_recipes) = 3

\* the catalogue name of the item with the identifier id
NameOf(id) == CHOOSE n \in DOMAIN items : normalize_name(n) = id

\* C11: for every catalogue built into a graph, cyclic ones included, and
\* every DotaItem I, the sub-item set build_all_recipes_with_subitems holds
\* for I is the set of identifiers one or more component edges lead to from
\* I, whatever the order the slots and the items were enumerated in.
C11_SubItemsAreReachable ==
    pc \in {"ci_loop", "ci_done"} =>
        \A I \in DOMAIN all_recipes :
            all_recipes[I].sub_items =
                {normalize_name(c) : c \in Reach(items, NameOf(I))}

C11_Witness ==
    /\ pc = "ci_loop"
    /\ ~Acyclic(items)
    /\ \E I \in DOMAIN all_recipes :
           /\ Cardinality(all_recipes[I].sub_items) = 3
           /\ I \notin all_recipes[I].sub_items
           /\ \E c \in Reach(items, NameOf(I)) : c \notin Components(items, NameOf(I))

\* C14: in the built graph an item has a hasBuildSchema edge exactly when its
\* recipe list is not empty, and then one schema only; the resolver takes
\* the schema branch for the items with a recipe and the leaf branch, which
\* returns the empty mapping, for the items without.
C14_SchemaIffRecipe ==
    pc # "build" =>
        /\ \A name \in DOMAIN items :
               LET schema_uris == objects(graph, KG(normalize_name(name)), "hasBuildSchema")
               IN  /\ schema_uris # {} <=> items[name].recipe # <<>>
                   /\ Cardinality(schema_uris) <= 1
        /\ \A i \in 1..Len(stack) :
               /\ get_name_from_uri(stack[i].item_uri) \in DOMAIN items
               /\ items[get_name_from_uri(stack[i].item_uri)].recipe # <<>>
        /\ pc = "fr_done" => (DOMAIN result = {} <=> items[Queried].recipe = <<>>)

C14_Witness ==
    /\ pc = "fr_running"
    /\ Len(stack) = 2
    /\ \E name \in DOMAIN items :
           /\ items[name].recipe = <<>>
           /\ KG(name) \in visited
           /\ objects(graph, KG(name), "hasBuildSchema") = {}

-----------------------------------------------------------------------------
(* Properties of the graph builder, checked under SpecBuild *)

\* the identifiers of the entries of a recipe list
Identifiers(recipe) == {normalize_name(c) : c \in Range(recipe)}

\* the number of entries of a recipe list with the identifier id
Multiplicity(recipe, id) ==
    Cardinality({i \in 1..Len(recipe) : normalize_name(recipe[i]) = id})

\* the slots of the schema of the item called name
SlotsOf(g, name) == objects(g, KG(schema_id(normalize_name(name))), "hasSlot")

IsSlotNode(g, node) == <<node, "type", KG(<<"BuildSchemaSlot">>)>> \in g

\* C12 as stated: for every built item with a non-empty recipe the schema
\* has one hasSlot edge per distinct component identifier; an identifier of
\* multiplicity 1 is linked directly, with no BuildSchemaSlot node, and one
\* of multiplicity q >= 2 through the node "{identifier}_{q}x", typed
\* BuildSchemaSlot, with a hasItem edge to the identifier.
C12_OneSlotPerIdentifier ==
    \A name \in DOMAIN items :
        (is_built(graph, name) /\ items[name].recipe # <<>>) =>
            LET recipe == items[name].recipe
                slots == SlotsOf(graph, name)
            IN  /\ Cardinality(slots) = Cardinality(Identifiers(recipe))
                /\ \A id \in Identifiers(recipe) :
                       LET q == Multiplicity(recipe, id)
                       IN  IF q = 1
                           THEN /\ KG(id) \in slots
                                /\ ~IsSlotNode(graph, KG(id))
                           ELSE /\ KG(slot_id(id, q)) \in slots
                                /\ IsSlotNode(graph, KG(slot_id(id, q)))
                                /\ KG(id) \in objects(graph, KG(slot_id(id, q)), "hasItem")

\* C13 as stated: for every quantity slot of a built item, the quantity is
\* the number of entries of the item's recipe whose identifier is the
\* slot's component, two spellings of one identifier counted together.
C13_QuantityCountsIdentifier ==
    \A name \in DOMAIN items :
        is_built(graph, name) =>
            \A slot \in SlotsOf(graph, name) :
                IsSlotNode(graph, slot) =>
                    \A component \in objects(graph, slot, "hasItem") :
                        objects(graph, slot, "quantity") =
                            {Literal(Multiplicity(items[name].recipe,
                                                  get_name_from_uri(component)))}

-----------------------------------------------------------------------------
(* Properties of set_orders on cyclic catalogues, checked under SpecScrape *)

\* the items of the catalogue whose recipe leads back to them
OnCycle(its) == {n \in DOMAIN its : n \in Reach(its, n)}

\* some recipe names a component the catalogue does not hold
NamesAbsent(its) ==
    \E n \in DOMAIN its : \E c \in Range(its[n].recipe) :
        ~endswith_Recipe(c) /\ c \notin DOMAIN its

-----------------------------------------------------------------------------
(* Properties of build_buffs and build_abilities, checked under SpecFields *)

BuffPredicates == {"strength", "healthRegen"}

AbilityPredicates == {"cooldown", "manaCost", "healAmp", "additionalStats"}

\* C17 as stated: no buff, ability or ability-stat field whose value is None
\* or zero is emitted as a triple; so for cooldown, mana cost and the
\* AbilityStats fields as for the Buffs fields.
C17_SparseFields ==
    \A t \in graph :
        t[2] \in BuffPredicates \cup AbilityPredicates =>
            t[3] \notin {Literal(None), Literal(0)}

-----------------------------------------------------------------------------
(* Properties of find_item_uri, checked under SpecFind *)

\* the names of the DotaItems of the graph
DotaItemNames ==
    {get_name_from_uri(s) : s \in subjects(graph, "type", KG(<<"DotaItem">>))}

\* the DotaItems whose lower-cased identifier scores the cutoff against the
\* lower-cased identifier of the input
Suggestions ==
    {n \in DotaItemNames :
        ratio_ge_cutoff(lower(normalize_name(n)), lower(normalize_name(query)))}

\* C18: find_item_uri returns an identifier iff the normalized, lower-cased
\* input equals the normalized, lower-cased name of some DotaItem of the
\* graph, and then the identifier of such an item; otherwise it returns None
\* without raising and prints at most 5 suggestions, or every name in sorted
\* order when nothing is close; a name that is only close is never returned.
C18_FindItemUri ==
    pc \in {"found", "not_found"} =>
        LET input == lower(normalize_name(query))
            exact == {n \in DotaItemNames : lower(normalize_name(n)) = input}
        IN  /\ (found # NoneUri) <=> (exact # {})
            /\ (pc = "found") <=> (found # NoneUri)
            /\ found # NoneUri =>
                   /\ get_name_from_uri(found) \in exact
                   /\ printed = <<>>
            /\ found = NoneUri =>
                   IF Suggestions = {}
                   THEN printed = sorted(DotaItemNames)
                   ELSE /\ Len(printed) \in 1..5
                        /\ Range(printed) \subseteq Suggestions

\* six names are close to the input, none equals it: five are printed
C18_Witness ==
    /\ pc = "not_found"
    /\ found = NoneUri
    /\ Cardinality(Suggestions) = 6
    /\ Len(printed) = 5

\* an exact match through normalization and case: "a'a b" finds AA_B
C18_WitnessFound ==
    /\ pc = "found"
    /\ query = <<"a", "'", "a", " ", "b">>
    /\ found = KG(<<"A", "A", "_", "B">>)

\* nothing is close: every name is printed, in sorted order
C18_WitnessAll ==
    /\ pc = "not_found"
    /\ Suggestions = {}
    /\ Len(printed) = 7

-----------------------------------------------------------------------------
(* The cycle guard of get_full_recipe, checked under SpecQuery *)

\* the slots the innermost call of get_full_recipe has yet to yield
PendingSlots == IF pc = "fr_running" THEN stack[Len(stack)].slots ELSE {}

\* the loop takes slot_uri, which refers to an item visited already
TakesVisitedSlot(slot_uri) ==
    /\ Len(stack') >= Len(stack)
    /\ slot_uri \notin stack'[Len(stack)].slots
    /\ \A call \in slot_calls(graph, slot_uri) :
           ~call.skip /\ already_visited(call.callee, visited)

-----------------------------------------------------------------------------
(* Properties of the resolvers on a graph with an edge to a Literal,       *)
(* checked under SpecLoad                                                  *)

\* the hasSlot and hasItem edges whose object is no identifier
LiteralEdges ==
    {t \in graph : t[2] \in {"hasSlot", "hasItem"} /\ ~is_URIRef(t[3])}

\* the graph with those edges removed
WithoutLiteralEdges == graph \ LiteralEdges

\* the graph without its hasSlot edges to a Literal and without the hasSlot
\* edges to a slot whose hasItem object is a Literal
WithoutLiteralSlots ==
    graph \ (LiteralEdges
             \cup {t \in graph : /\ t[2] = "hasSlot"
                                 /\ \E b \in LiteralEdges :
                                        b[2] = "hasItem" /\ b[1] = t[3]})

\* what get_full_recipe(item_uri) may return on the graph g
FullRecipesOn(g, item_uri) == {o.recipe : o \in get_full_recipe(g, item_uri, {})}

\* what get_full_recipe_with_subitems(item_uri) may return on the graph g
FullRecipesWithSubitemsOn(g, item_uri) ==
    {[leaves |-> o.recipe, sub_items |-> o.sub_items] :
        o \in get_full_recipe_with_subitems(g, item_uri, {})}

\* C19 as stated: with a hasSlot object or a slot's hasItem object that is
\* no identifier, each resolver returns without an error what it may return
\* on the same graph with that edge removed.
C19_EdgeSkipped ==
    /\ pc # "raised"
    /\ pc = "fr_done" => result \in FullRecipesOn(WithoutLiteralEdges, query)
    /\ pc \in {"ci_running", "ci_loop"} =>
           \A n \in DOMAIN all_recipes :
               all_recipes[n] \in FullRecipesWithSubitemsOn(WithoutLiteralEdges, KG(n))

\* C19 amended: a hasSlot edge to a Literal is skipped alone; a slot whose
\* hasItem object is a Literal is skipped whole.  Each resolver returns
\* without an error what it may return on the graph without the hasSlot
\* edges to a Literal and without the hasSlot edges to such a slot.
C19_SlotSkipped ==
    /\ pc # "raised"
    /\ pc = "fr_done" => result \in FullRecipesOn(WithoutLiteralSlots, query)
    /\ pc \in {"ci_running", "ci_loop"} =>
           \A n \in DOMAIN all_recipes :
               all_recipes[n] \in FullRecipesWithSubitemsOn(WithoutLiteralSlots, KG(n))

\* A: [B, B] with the hasItem object of B_2x a Literal: get_full_recipe(A)
\* returned the empty mapping, the slot being skipped
C19_Witness ==
    /\ pc = "fr_done"
    /\ \E b \in LiteralEdges :
           /\ b[2] = "hasItem"
           /\ \E schema_uri \in objects(graph, query, "hasBuildSchema") :
                  objects(graph, schema_uri, "hasSlot") = {b[1]}
    /\ result = <<>>

\* a schema with a hasSlot edge to a Literal beside a slot that counts
C19_WitnessSlot ==
    /\ pc = "fr_done"
    /\ \E b \in LiteralEdges :
           /\ b[2] = "hasSlot"
           /\ b[1] \in objects(graph, query, "hasBuildSchema")
    /\ result # <<>>

\* the same two cases in build_all_recipes_with_subitems
C19_WitnessSubitems ==
    /\ pc = "ci_loop"
    /\ \E b \in LiteralEdges : b[2] = "hasItem"
    /\ \E n \in DOMAIN all_recipes :
           /\ objects(graph, KG(n), "hasBuildSchema") # {}
           /\ all_recipes[n] = [leaves |-> <<>>, sub_items |-> {}]

-----------------------------------------------------------------------------
(* The resolvers over the orders of enumeration, checked under SpecQuery *)

\* C21: for every acyclic catalogue built into a graph and every item, the
\* mapping get_full_recipe returned is the only mapping it may return,
\* whatever the order in which the hasSlot edges of each schema are yielded.
C21_OrderIndependent ==
    (pc = "fr_done" /\ Acyclic(items)) => FullRecipesOn(graph, query) = {result}


\* the leaf mappings get_full_recipe_with_subitems(item_uri) may return
LeavesWithSubitemsOn(g, item_uri) ==
    {o.leaves : o \in FullRecipesWithSubitemsOn(g, item_uri)}

\* C22: the two resolvers agree on the leaf counts: what get_full_recipe
\* returned for an item is a leaf mapping get_full_recipe_with_subitems may
\* return for it, and the leaf mapping build_all_recipes_with_subitems
\* stored for an item is a mapping get_full_recipe may return for it.
C22_VariantsAgree ==
    /\ pc = "fr_done" => result \in LeavesWithSubitemsOn(graph, query)
    /\ pc \in {"ci_running", "ci_loop"} =>
           \A n \in DOMAIN all_recipes :
               all_recipes[n].leaves \in FullRecipesOn(graph, KG(n))


-----------------------------------------------------------------------------
(* The session cache of build_all_recipes_with_subitems, checked under     *)
(* SpecQuery                                                               *)

\* C23: within one build_all_recipes_with_subitems session no item is
\* flattened twice: a nested call of get_full_recipe_with_subitems never
\* starts to walk the slots of an item whose result is in the cache.
C23_CachedNotWalkedAgain ==
    [][(pc = "ci_running" /\ Len(stack') > Len(stack)) =>
           stack'[Len(stack')].item_uri \notin DOMAIN cache]_vars


-----------------------------------------------------------------------------
(* Further properties of the catalogue transforms, checked under SpecScrape *)

\* C24: when scrape.py main runs set_orders and then set_distinct_recipes,
\* every entry of the catalogue it goes on with has its order populated, and
\* every item-specific recipe node "X Recipe" has order 0.
C24_OrdersPopulated ==
    [][(pc = "ordered" /\ pc' = "transformed" /\ last' = "set_distinct_recipes") =>
           \A n \in DOMAIN items' :
               /\ items'[n].order # None
               /\ endswith_Recipe(n) => items'[n].order = 0]_vars


\* C25: set_orders returns a catalogue with the keys of its input, in which
\* the cost and the recipe of every entry are as they were, and it enters
\* the computation of a name's order (line 47) at most once per call.
C25_SetOrdersFrame ==
    last = "set_orders" =>
        LET computed == set_orders(prev).computed
        IN  /\ DOMAIN items = DOMAIN prev
            /\ \A n \in DOMAIN items :
                   /\ items[n].cost = prev[n].cost
                   /\ items[n].recipe = prev[n].recipe
            /\ \A i, j \in 1..Len(computed) : computed[i] = computed[j] => i = j

\* the order of B is asked for three times in one call (as an entry and
\* twice as a component of A) and computed once
C25_Witness ==
    /\ last = "set_orders"
    /\ DOMAIN items = {<<"A">>, <<"B">>}
    /\ items[<<"A">>].recipe = <<<<"B">>, <<"B">>>>
    /\ items[<<"B">>].recipe = <<>>
    /\ set_orders(prev).computed = <<<<"A">>, <<"B">>>>
    /\ items[<<"A">>].order = 2
    /\ prev[<<"A">>].order = None


-----------------------------------------------------------------------------
(* get_full_recipe on trees of craftable items, checked under SpecQuery *)

\* the number of slot paths that lead from n to c in an acyclic catalogue, a
\* slot being one distinct component of a recipe
RECURSIVE SlotPaths(_, _, _)
SlotPaths(its, n, c) ==
    IF n = c THEN 1
    ELSE LET RECURSIVE total(_)
             total(S) ==
                 IF S = {} THEN 0
                 ELSE LET m == CHOOSE x \in S : TRUE
                      IN  SlotPaths(its, m, c) + total(S \ {m})
         IN  total(Components(its, n))

\* no craftable item is reached from n through two different slot paths
CraftableTree(its, n) ==
    /\ Acyclic(its)
    /\ \A c \in DOMAIN its : ~IsLeaf(its, c) => SlotPaths(its, n, c) <= 1

\* C27: when no craftable item is reachable from the queried craftable item
\* through two different slot paths (leaves may be shared), get_full_recipe
\* returns the leaves of the fully unrolled recipe, each with the sum over
\* its paths of the product of the slot quantities along the path.
C27_TreeUnrolledCounts ==
    (pc = "fr_done" /\ ~IsLeaf(items, Queried) /\ CraftableTree(items, Queried)) =>
        result = Unrolled(items, Queried)

\* A: [B, C], B: [C, C], C a leaf met on two paths: {C: 3}
C27_Witness ==
    /\ pc = "fr_done"
    /\ CraftableTree(items, Queried)
    /\ \E b, c \in DOMAIN items \ {Queried} :
           /\ items[Queried].recipe = <<b, c>>
           /\ items[b].recipe = <<c, c>>
           /\ items[c].recipe = <<>>
           /\ result = dict_add(<<>>, normalize_name(c), 3)


-----------------------------------------------------------------------------
(* Postconditions and idempotence of the two catalogue transforms, checked *)
(* under SpecScrape                                                        *)

\* C28: after set_distinct_recipes no recipe holds the generic placeholder
\* "Recipe", and "X Recipe" in the recipe of X is an entry of the output;
\* after remove_distinct_recipes no key holds "recipe" in any case and no
\* recipe holds a component ending in "Recipe" but the generic "Recipe".
C28_TransformPostconditions ==
    /\ last = "set_distinct_recipes" =>
           \A X \in DOMAIN items :
               /\ GenericRecipe \notin Range(items[X].recipe)
               /\ recipe_name_of(X) \in Range(items[X].recipe)
                      => recipe_name_of(X) \in DOMAIN items
    /\ last = "remove_distinct_recipes" =>
           \A X \in DOMAIN items :
               /\ ~contains_recipe(X)
               /\ \A c \in Range(items[X].recipe) :
                      endswith_Recipe(c) => c = GenericRecipe

\* set_distinct_recipes gave A its "A Recipe" in place of the placeholder
C28_Witness ==
    /\ last = "set_distinct_recipes"
    /\ \E X \in DOMAIN prev :
           /\ GenericRecipe \in Range(prev[X].recipe)
           /\ recipe_name_of(X) \in Range(items[X].recipe)
           /\ recipe_name_of(X) \notin DOMAIN prev
           /\ recipe_name_of(X) \in DOMAIN items

\* remove_distinct_recipes dropped "A Recipe" and made the component generic
C28_WitnessRemoved ==
    /\ last = "remove_distinct_recipes"
    /\ \E X \in DOMAIN prev :
           /\ recipe_name_of(X) \in DOMAIN prev
           /\ recipe_name_of(X) \in Range(prev[X].recipe)
           /\ X \in DOMAIN items
           /\ GenericRecipe \in Range(items[X].recipe)


\* the two catalogues have the same keys, and every entry the same recipe
\* and the same cost
SameCatalogue(a, b) ==
    /\ DOMAIN a = DOMAIN b
    /\ \A n \in DOMAIN a : a[n].recipe = b[n].recipe /\ a[n].cost = b[n].cost

\* C29: set_distinct_recipes and remove_distinct_recipes are idempotent:
\* applied to its own output, each returns a catalogue with the same keys,
\* the same recipe for every item and the same cost for every entry.
C29_Idempotent ==
    /\ last = "set_distinct_recipes" =>
           /\ set_distinct_recipes(items).ok
           /\ SameCatalogue(set_distinct_recipes(items).val, items)
    /\ last = "remove_distinct_recipes" =>
           SameCatalogue(remove_distinct_recipes(items), items)


-----------------------------------------------------------------------------
(* The slot nodes of the graph, checked under SpecBuild *)

\* the nodes typed BuildSchemaSlot
SlotNodes == subjects(graph, "type", KG(<<"BuildSchemaSlot">>))

\* C30: while and after build_dota_item is applied to the items of a
\* catalogue, in any order, every node typed BuildSchemaSlot has exactly one
\* hasItem target and exactly one quantity, and the quantity is at least 2,
\* although the schemas of different items share slot nodes.
C30_SlotNodesWellFormed ==
    \A slot \in SlotNodes :
        /\ Cardinality(objects(graph, slot, "hasItem")) = 1
        /\ Cardinality(objects(graph, slot, "quantity")) = 1
        /\ \A q \in objects(graph, slot, "quantity") : ~is_URIRef(q) /\ q[2] >= 2

\* the schemas of two items share a slot node, one of them through the
\* spelling "D D" and the other through "D_D"
C30_Witness ==
    /\ pc = "ready"
    /\ \E slot \in SlotNodes :
           /\ Cardinality(subjects(graph, "hasSlot", slot)) = 2
           /\ objects(graph, slot, "quantity") = {Literal(2)}
    /\ \E a, b \in DOMAIN items :
           /\ Count(items[a].recipe, <<"D", " ", "D">>) = 2
           /\ Count(items[b].recipe, <<"D", "_", "D">>) = 2

-----------------------------------------------------------------------------
(* The scrapers' worker pool: Dota2RuScraper.scrape and                    *)
(* FandomScraper.scrape_dota_items                                         *)

MaxTags == 2           \* most item tags on the site's item page

Scrapers == {"dota2_ru", "fandom"}

\* what an item tag gives its task: a name (<<>> when the task returns None)
\* and the cost written on the tag
Tags == [name : ScrapedNames \cup {<<>>}, cost : 0..MaxCost]

\* the component each item's own page lists (at most one, no cycle through
\* the pages)
PageRecipes ==
    {r \in [ScrapedNames -> {<<>>} \cup {<<c>> : c \in ScrapedNames}] :
        /\ \A n \in ScrapedNames : r[n] # <<n>>
        /\ \E n \in ScrapedNames : r[n] = <<>>}

Pages ==
    {[scraper |-> s, tags |-> t, recipes |-> r] :
        s \in Scrapers,
        t \in UNION {[1..n -> Tags] : n \in 0..MaxTags},
        r \in PageRecipes}

\* the value a task returns: _process_item and _build_dota_item
task_result(p, t) ==
    [name |-> p.tags[t].name,
     item |-> DotaItem(p.tags[t].cost,
                       IF p.tags[t].name = <<>> THEN <<>> ELSE p.recipes[p.tags[t].name],
                       None)]

\* the records _build_dota_item can make of a component link: the cost is
\* the one in the link's title, 0 when the title has none
link_results(p, c) == {DotaItem(cost, p.recipes[c], None) : cost \in 0..MaxCost}

\* the component a fandom worker looks up in self.items, <<>> when it has none
component(p, t) ==
    IF p.scraper = "fandom" /\ p.tags[t].name # <<>>
    THEN p.recipes[p.tags[t].name]
    ELSE <<>>

\* a mutant of collect: the result is dropped
collect_dropped(ans, returned) == ans

\* if result: ans[result.name] = result
collect(ans, returned) ==
    IF returned.name # <<>> THEN (returned.name :> returned.item) @@ ans ELSE ans

InitPool ==
    /\ items = <<>>
    /\ file = <<>>
    /\ pc = "start"
    /\ last = "none"
    /\ prev = <<>>
    /\ trip = <<>>
    /\ snap = <<>>
    /\ raised = NotRaised
    /\ graph = {}
    /\ query = <<>>
    /\ visited = {}
    /\ stack = <<>>
    /\ result = <<>>
    /\ expanded = {}
    /\ cache = <<>>
    /\ all_recipes = <<>>
    /\ targets = <<>>
    /\ found = NoneUri
    /\ printed = <<>>
    /\ page = <<>>
    /\ futures = <<>>

poolFrame == <<file, last, prev, trip, snap, raised, graph, query, visited, stack, result,
               expanded, cache, all_recipes, targets, found, printed>>

\* the mapping is emptied, the item page fetched and one task per tag submitted
Scrape(p) ==
    /\ pc = "start"
    /\ page' = p
    /\ futures' = [t \in DOMAIN p.tags |-> "running"]
    /\ items' = <<>>
    /\ pc' = "scraping"
    /\ UNCHANGED poolFrame

\* a fandom worker reads its item's page and looks the component up in self.items
LookUpComponent(t) ==
    /\ pc = "scraping"
    /\ futures[t] = "running"
    /\ component(page, t) # <<>>
    /\ futures' = [futures EXCEPT ![t] =
                       IF component(page, t)[1] \notin DOMAIN items
                       THEN "building" ELSE "looked_up"]
    /\ UNCHANGED <<items, pc, page>>
    /\ UNCHANGED poolFrame

\* the worker builds the missing component itself; the record, when one is
\* made, goes into self.items
BuildComponent(t) ==
    /\ pc = "scraping"
    /\ futures[t] = "building"
    /\ \/ \E obj \in link_results(page, component(page, t)[1]) :
              items' = (component(page, t)[1] :> obj) @@ items
       \/ items' = items
    /\ futures' = [futures EXCEPT ![t] = "looked_up"]
    /\ UNCHANGED <<pc, page>>
    /\ UNCHANGED poolFrame

\* a task completes; a fandom worker that made a record has put it in self.items
WorkerDone(t) ==
    /\ pc = "scraping"
    /\ \/ futures[t] = "running" /\ component(page, t) = <<>>
       \/ futures[t] = "looked_up"
    /\ items' = IF page.scraper = "fandom" /\ task_result(page, t).name # <<>>
                THEN (task_result(page, t).name :> task_result(page, t).item) @@ items
                ELSE items
    /\ futures' = [futures EXCEPT ![t] = "done"]
    /\ UNCHANGED <<pc, page>>
    /\ UNCHANGED poolFrame

\* as_completed yields a completed task and its result is stored
Collect(t) ==
    /\ pc = "scraping"
    /\ futures[t] = "done"
    /\ items' = collect(items, task_result(page, t))
    /\ futures' = [futures EXCEPT ![t] = "collected"]
    /\ UNCHANGED <<pc, page>>
    /\ UNCHANGED poolFrame

\* every task was yielded: the pool is left and the mapping returned
Return ==
    /\ pc = "scraping"
    /\ \A t \in DOMAIN futures : futures[t] = "collected"
    /\ pc' = "scraped"
    /\ UNCHANGED <<items, page, futures>>
    /\ UNCHANGED poolFrame

NextPool ==
    \/ \E p \in Pages : Scrape(p)
    \/ \E t \in DOMAIN futures : LookUpComponent(t)
    \/ \E t \in DOMAIN futures : BuildComponent(t)
    \/ \E t \in DOMAIN futures : WorkerDone(t)
    \/ \E t \in DOMAIN futures : Collect(t)
    \/ Return

SpecPool == InitPool /\ [][NextPool]_vars


-----------------------------------------------------------------------------
(* Properties of the worker pool *)

\* the tasks that produced an item
Producers == {t \in DOMAIN page.tags : task_result(page, t).name # <<>>}

\* the records the tasks made of the item named n
TaskRecords(n) == {task_result(page, t).item : t \in {u \in Producers : page.tags[u].name = n}}

\* the records a fandom worker can make of n as the component of its own item
ComponentRecords(n) ==
    IF \E t \in Producers : component(page, t) = <<n>>
    THEN link_results(page, n)
    ELSE {}

\* C26: when scrape() has returned, every task submitted to the pool has
\* completed and been collected, and the returned mapping holds, under its
\* name, the record of every task that produced an item, whatever the order
\* in which the workers finished.
C26_EveryTaskRecorded ==
    pc = "scraped" =>
        /\ \A t \in DOMAIN futures : futures[t] = "collected"
        /\ \A t \in Producers :
               /\ page.tags[t].name \in DOMAIN items
               /\ items[page.tags[t].name] = task_result(page, t).item

\* what does hold of the returned mapping: every task has completed, every
\* name a task produced has an entry, and every entry is a record that a task
\* or a worker's component build made of that name
C26_CompletedAndNamed ==
    pc = "scraped" =>
        /\ \A t \in DOMAIN futures : futures[t] = "collected"
        /\ \A t \in Producers : page.tags[t].name \in DOMAIN items
        /\ \A n \in DOMAIN items : items[n] \in TaskRecords(n) \cup ComponentRecords(n)

\* the same under the names of one site's tags being distinct and no worker
\* building a component: the mapping is exactly the tasks' records
C26_DistinctNames ==
    (/\ pc = "scraped"
     /\ \A t, u \in Producers : page.tags[t].name = page.tags[u].name => t = u
     /\ \A t \in Producers : component(page, t) = <<>>) =>
        /\ DOMAIN items = {page.tags[t].name : t \in Producers}
        /\ \A t \in Producers : items[page.tags[t].name] = task_result(page, t).item


\* a fandom worker's component record outlives the record of the component's own task
C26_Race ==
    /\ pc = "scraped"
    /\ page.scraper = "fandom"
    /\ \A t, u \in Producers : page.tags[t].name = page.tags[u].name => t = u
    /\ \E t \in Producers : items[page.tags[t].name] # task_result(page, t).item

=============================================================================
